---- MODULE Spec2Model ----
(***************************************************************************)
(* A model of the uxplain core: the project indexer (ProjectIndexer), the  *)
(* index search engine (IndexSearchEngine) and the visual-code correlator  *)
(* (VisualCodeCorrelator).                                                 *)
(*                                                                         *)
(* JavaScript strings are TLA+ strings (Len, SubSeq and \o work on them);  *)
(* JavaScript arrays are sequences; numbers that are fractions in the code *)
(* (similarity scores, confidences) are exact rationals [n, d].            *)
(***************************************************************************)
EXTENDS Integers, Sequences, FiniteSets, TLC

VARIABLES
  \* ---- IndexSearchEngine ----
  index,        \* IndexSearchEngine.index: [components, pages]
  call,         \* the last public method called on the engine, with its arguments
  ret,          \* what that call returned
  \* ---- calculateRelevanceScore / findMatches on one component ----
  component,    \* the ComponentIndex scored
  query,        \* the SearchQuery
  pc,           \* "input" before the component is scored, "scored" after
  score,        \* calculateRelevanceScore(component, query)
  matches,      \* findMatches(component, query), computed when score > 0
  \* ---- the file system ----
  disk,         \* the index artifact (.ui-context-index.json) under each project path
  \* ---- VisualCodeCorrelator ----
  projectIndex, \* VisualCodeCorrelator.projectIndex, Null when not set
  searchEngine, \* VisualCodeCorrelator.searchEngine: the index it was built on, or Null
  browserManager, \* VisualCodeCorrelator.browserManager: [browser, context]
  analysis,     \* the last analyzeWithCodeCorrelation call and its outcome
  \* ---- ProjectIndexer ----
  projectTree,  \* the files of the project tree, in the order readdir lists them
  manifest,     \* package.json of the project
  indexers,     \* the ProjectIndexer instances: [index, browserManager] each
  history,      \* the indexProject runs so far: [indexer, status, index]
  \* ---- calculateStringSimilarity on two strings ----
  strA,         \* the first string
  strB,         \* the second string
  stringSimilarity, \* [computed |-> FALSE], or the value computed for strA and strB
  \* ---- VisualAnalyzer / UIContextTool.captureResponsiveViews ----
  elementAt,    \* the requested element at each viewport width: visible, hidden or absent
  visualAnalyzer, \* VisualAnalyzer.browserManager: [browser, context]
  capture,      \* the last capture call and its outcome
  \* ---- VisualCodeCorrelator.findComponentMatch, strategy by strategy ----
  visualTarget, \* the visual element a component is sought for
  stage,        \* the strategy that ran last: start, text, type, class, returned
  matchSoFar,   \* bestMatch, confidence and matchReason as they stand
  pending,      \* the class names strategy 3 has still to try
  lastStep,     \* the last strategy step: what it searched, found and decided
  trail,        \* matchSoFar after each step, in order
  \* ---- extractRelevantCodeSnippet on one component ----
  snippetComponent, \* the matched component
  snippetTaken, \* [taken |-> FALSE], or the snippet extracted from its source
  \* ---- UIContextTool.captureUIContext ----
  serverManager, \* the singleton BrowserManager of browser.ts, Null before the first use
  uiContext     \* the last captureUIContext call and its outcome

searchVars == <<index, call, ret>>
scoreVars == <<component, query, pc, score, matches>>
correlatorVars == <<disk, projectIndex, searchEngine, browserManager, analysis>>

indexerVars == <<projectTree, manifest, indexers, history>>

stringVars == <<strA, strB, stringSimilarity>>

captureVars == <<elementAt, visualAnalyzer, capture>>

arbitrationVars == <<visualTarget, stage, matchSoFar, pending, lastStep, trail>>

snippetVars == <<snippetComponent, snippetTaken>>

contextVars == <<serverManager, uiContext>>

vars ==
  <<searchVars, scoreVars, correlatorVars, indexerVars, stringVars, captureVars,
    arbitrationVars, snippetVars, contextVars>>

-----------------------------------------------------------------------------
(* Bounds of the model *)

MaxComponents == 3      \* components of an index handed to the engine
MaxLimit == 2           \* the limit argument of findSimilarComponents
MaxQueryTags == 2       \* length of query.tags

-----------------------------------------------------------------------------
(* Strings *)

Max(a, b) == IF a >= b THEN a ELSE b
Min(a, b) == IF a <= b THEN a ELSE b

CharAt(s, i) == SubSeq(s, i, i)

UpperCase == "ABCDEFGHIJKLMNOPQRSTUVWXYZ"
LowerCase == "abcdefghijklmnopqrstuvwxyz"

\* the lower-case letter of every upper-case letter
LowerOf ==
  [c \in {CharAt(UpperCase, i) : i \in 1..Len(UpperCase)} |->
     CharAt(LowerCase, CHOOSE i \in 1..Len(UpperCase) : CharAt(UpperCase, i) = c)]

IsUpperChar(c) == c \in DOMAIN LowerOf

ToLowerChar(c) == IF IsUpperChar(c) THEN LowerOf[c] ELSE c

\* String.prototype.toLowerCase
RECURSIVE ToLowerCase(_)
ToLowerCase(s) ==
  IF s = "" THEN ""
  ELSE ToLowerChar(CharAt(s, 1)) \o ToLowerCase(SubSeq(s, 2, Len(s)))

\* String.prototype.indexOf: 0-based position of the first occurrence, -1 if none
IndexOf(s, t) ==
  LET hits == {i \in 0..(Len(s) - Len(t)) : SubSeq(s, i + 1, i + Len(t)) = t}
  IN  IF hits = {} THEN -1 ELSE CHOOSE i \in hits : \A j \in hits : i <= j

\* String.prototype.includes
Includes(s, t) == IndexOf(s, t) # -1

\* String.prototype.substring(start, end) with 0 <= start <= end <= length
Substring(s, start, end) == SubSeq(s, start + 1, end)

\* Array.prototype.includes
Contains(seq, x) == \E i \in 1..Len(seq) : seq[i] = x

\* seq.filter(x => allowed.includes(x)).length
CountIn(seq, allowed) == Cardinality({i \in 1..Len(seq) : Contains(allowed, seq[i])})

-----------------------------------------------------------------------------
(* Exact rationals for the fractions the code computes *)

RECURSIVE GCD(_, _)
GCD(a, b) == IF b = 0 THEN a ELSE GCD(b, a % b)

\* n/d in lowest terms, d > 0, n >= 0
Rat(n, d) == LET g == GCD(n, d) IN [n |-> n \div g, d |-> d \div g]
RatInt(k) == [n |-> k, d |-> 1]
RatLess(a, b) == a.n * b.d < b.n * a.d
RatLeq(a, b) == a.n * b.d <= b.n * a.d
RatMin(a, b) == IF RatLeq(a, b) THEN a ELSE b
RatAdd(a, b) == Rat(a.n * b.d + b.n * a.d, a.d * b.d)
RatMul(a, b) == Rat(a.n * b.n, a.d * b.d)

-----------------------------------------------------------------------------
(* IndexSearchEngine: relevance                                            *)
(*                                                                         *)
(* A SearchQuery is [text, tags, componentType, hasProps, hasSideEffects,  *)
(* usedIn].  An absent text is "", absent tags / usedIn are <<>> (the code *)
(* treats undefined, "" and [] alike: `if (query.text)`,                   *)
(* `query.tags && query.tags.length > 0`); an absent componentType is      *)
(* "any" (`query.componentType && query.componentType !== 'any'`); the     *)
(* optional booleans are "true", "false" or "undefined".                   *)
(***************************************************************************)

Query(text, tags, componentType, hasProps, hasSideEffects, usedIn) ==
  [text |-> text, tags |-> tags, componentType |-> componentType,
   hasProps |-> hasProps, hasSideEffects |-> hasSideEffects, usedIn |-> usedIn]

\* a query that gives a text and nothing else
TextQuery(text) == Query(text, <<>>, "any", "undefined", "undefined", <<>>)

BoolName(b) == IF b THEN "true" ELSE "false"

\* lines 135-160: the text contributions
TextScore(c, q) ==
  IF q.text = "" THEN 0
  ELSE LET searchText == ToLowerCase(q.text)
           propHits == {k \in 1..Len(c.props) :
                          \/ Includes(ToLowerCase(c.props[k].name), searchText)
                          \/ Includes(ToLowerCase(c.props[k].type), searchText)}
       IN  (IF Includes(ToLowerCase(c.name), searchText) THEN 10 ELSE 0)
         + (IF Includes(ToLowerCase(c.description), searchText) THEN 5 ELSE 0)
         + (IF Includes(ToLowerCase(c.sourceCode), searchText) THEN 2 ELSE 0)
         + 3 * Cardinality(propHits)

\* a plausible slip: matching tags subtracted instead of added
TagScoreSignSlip(c, q) ==
  IF Len(q.tags) > 0
    THEN 0 - 4 * CountIn(c.tags, q.tags)
    ELSE 0

\* lines 162-168: +4 for every tag of the component that the query names
TagScore(c, q) ==
  IF Len(q.tags) > 0
    THEN 4 * CountIn(c.tags, q.tags)
    ELSE 0

\* lines 170-185: the componentType filter
TypeScore(c, q) ==
  IF q.componentType # "any"
    THEN LET isFunctional == \/ Includes(c.sourceCode, "function ")
                             \/ Includes(c.sourceCode, "const ")
                             \/ Includes(c.sourceCode, "=>")
             isClass == \/ Includes(c.sourceCode, "class ")
                        \/ Includes(c.sourceCode, "extends")
         IN  IF q.componentType = "functional" /\ isFunctional THEN 2
             ELSE IF q.componentType = "class" /\ isClass THEN 2
             ELSE -5
    ELSE 0

\* lines 187-195
HasPropsScore(c, q) ==
  IF q.hasProps # "undefined"
    THEN IF q.hasProps = BoolName(Len(c.props) > 0) THEN 2 ELSE -3
    ELSE 0

\* lines 197-205
HasSideEffectsScore(c, q) ==
  IF q.hasSideEffects # "undefined"
    THEN IF q.hasSideEffects = BoolName(Contains(c.tags, "side-effects")) THEN 2 ELSE -3
    ELSE 0

\* lines 207-213: +3 for every usedIn entry of the component that the query names
UsageScore(c, q) ==
  IF Len(q.usedIn) > 0
    THEN 3 * CountIn(c.usedIn, q.usedIn)
    ELSE 0

\* the sum before the floor of line 215
RawScore(c, q) ==
  TextScore(c, q) + TagScore(c, q) + TypeScore(c, q)
    + HasPropsScore(c, q) + HasSideEffectsScore(c, q) + UsageScore(c, q)

\* a plausible slip: the floor at 0 left out
FinalScoreNoFloor(raw) == raw

\* line 215: return Math.max(0, score)
FinalScore(raw) == Max(0, raw)

calculateRelevanceScore(c, q) == FinalScore(RawScore(c, q))

\* lines 331-335: the fields searched, in order
MatchFields == <<"name", "description", "sourceCode">>

\* lines 337-353 for one field: <<>> or one match record
FieldMatch(c, field, searchText) ==
  LET content == ToLowerCase(c[field])
      at == IndexOf(content, searchText)
      start == Max(0, at - 50)
      end == Min(Len(content), at + Len(searchText) + 50)
  IN  IF at # -1
        THEN << [field |-> field,
                 snippet |-> Substring(c[field], start, end),
                 highlightStart |-> at - start,
                 highlightEnd |-> at - start + Len(searchText)] >>
        ELSE <<>>

\* a plausible slip: only the first field that matches is reported
findMatchesFirstOnly(c, q) ==
  IF q.text = "" THEN <<>>
  ELSE LET all == FieldMatch(c, MatchFields[1], ToLowerCase(q.text))
                    \o FieldMatch(c, MatchFields[2], ToLowerCase(q.text))
                    \o FieldMatch(c, MatchFields[3], ToLowerCase(q.text))
       IN  IF all = <<>> THEN <<>> ELSE <<all[1]>>

\* lines 323-356
findMatches(c, q) ==
  IF q.text = "" THEN <<>>
  ELSE FieldMatch(c, MatchFields[1], ToLowerCase(q.text))
         \o FieldMatch(c, MatchFields[2], ToLowerCase(q.text))
         \o FieldMatch(c, MatchFields[3], ToLowerCase(q.text))

\* lines 40-51: one result per component whose score is > 0, in index order
RECURSIVE CollectResults(_, _)
CollectResults(components, q) ==
  IF components = <<>> THEN <<>>
  ELSE LET c == Head(components)
           relevanceScore == calculateRelevanceScore(c, q)
       IN  (IF relevanceScore > 0
              THEN << [component |-> c,
                       relevanceScore |-> relevanceScore,
                       matches |-> findMatches(c, q)] >>
              ELSE <<>>)
           \o CollectResults(Tail(components), q)

\* Array.prototype.sort is stable (ECMAScript 2019): an element is placed after
\* every element the comparator does not order after it.
RECURSIVE InsertStable(_, _, _)
InsertStable(sorted, x, before) ==
  IF sorted = <<>> THEN <<x>>
  ELSE IF before[x, Head(sorted)] THEN <<x>> \o sorted
  ELSE <<Head(sorted)>> \o InsertStable(Tail(sorted), x, before)

\* the positions 1..n in sorted order; before[i, j] is "the comparator puts i first"
RECURSIVE SortedPositions(_, _)
SortedPositions(n, before) ==
  IF n = 0 THEN <<>>
  ELSE InsertStable(SortedPositions(n - 1, before), n, before)

\* seq sorted by a comparator given as before[i, j]: "seq[i] goes before seq[j]"
StableSort(seq, before) ==
  LET order == SortedPositions(Len(seq), before)
  IN  [k \in 1..Len(seq) |-> seq[order[k]]]

\* a plausible slip: a sort that puts a later element in front of its equals
SortByRelevanceUnstable(results) ==
  StableSort(results,
             [i \in 1..Len(results), j \in 1..Len(results) |->
                results[i].relevanceScore >= results[j].relevanceScore])

\* line 54: results.sort((a, b) => b.relevanceScore - a.relevanceScore)
SortByRelevance(results) ==
  StableSort(results,
             [i \in 1..Len(results), j \in 1..Len(results) |->
                results[j].relevanceScore - results[i].relevanceScore < 0])

\* a plausible slip: the test relevanceScore > 0 left out
searchComponentsUnfiltered(idx, q) ==
  SortByRelevance([i \in 1..Len(idx.components) |->
                     [component |-> idx.components[i],
                      relevanceScore |-> calculateRelevanceScore(idx.components[i], q),
                      matches |-> findMatches(idx.components[i], q)]])

\* lines 37-55
searchComponents(idx, q) == SortByRelevance(CollectResults(idx.components, q))

-----------------------------------------------------------------------------
(* IndexSearchEngine: similarity *)

\* lines 306-318: row i of the matrix from row i - 1, filled left to right;
\* rows are sequences, row[j + 1] being matrix[i][j]
RECURSIVE FillRow(_, _, _, _)
FillRow(row, prev, ch, str1) ==
  LET j == Len(row)
  IN  IF j > Len(str1) THEN row
      ELSE FillRow(
             Append(row,
               IF ch = CharAt(str1, j)
                 THEN prev[j]
                 ELSE Min(prev[j] + 1, Min(row[j] + 1, prev[j + 1] + 1))),
             prev, ch, str1)

RECURSIVE LastRow(_, _, _)
LastRow(i, str1, str2) ==
  IF i = 0 THEN [j \in 1..(Len(str1) + 1) |-> j - 1]
  ELSE FillRow(<<i>>, LastRow(i - 1, str1, str2), CharAt(str2, i), str1)

\* lines 302-321
levenshteinDistance(str1, str2) == LastRow(Len(str2), str1, str2)[Len(str1) + 1]

\* a plausible slip: the distance as a fraction of the length, not the similarity
calculateStringDistanceRatio(str1, str2) ==
  LET longer == IF Len(str1) > Len(str2) THEN str1 ELSE str2
      shorter == IF Len(str1) > Len(str2) THEN str2 ELSE str1
  IN  IF Len(longer) = 0 THEN RatInt(1)
      ELSE Rat(levenshteinDistance(longer, shorter), Len(longer))

\* lines 291-300
calculateStringSimilarity(str1, str2) ==
  LET longer == IF Len(str1) > Len(str2) THEN str1 ELSE str2
      shorter == IF Len(str1) > Len(str2) THEN str2 ELSE str1
  IN  IF Len(longer) = 0 THEN RatInt(1)
      ELSE Rat(Len(longer) - levenshteinDistance(longer, shorter), Len(longer))

\* lines 235-257
calculateSemanticSimilarity(comp1, comp2) ==
  LET commonTags == CountIn(comp1.tags, comp2.tags)
      commonPropTypes ==
        Cardinality({i \in 1..Len(comp1.props) :
                       \E k \in 1..Len(comp2.props) :
                         comp2.props[k].type = comp1.props[i].type})
      commonImports == CountIn(comp1.imports, comp2.imports)
      nameSimilarity == calculateStringSimilarity(comp1.name, comp2.name)
      total == RatAdd(Rat(20 * commonTags + 15 * commonPropTypes + 10 * commonImports, 100),
                     RatMul(nameSimilarity, Rat(3, 10)))
  IN  RatMin(RatInt(1), total)

\* new Set([...a, ...b]).size
UnionSize(a, b) == Cardinality({a[i] : i \in 1..Len(a)} \cup {b[i] : i \in 1..Len(b)})

\* lines 259-270
calculateUsageSimilarity(comp1, comp2) ==
  LET commonUsageContexts == CountIn(comp1.usedIn, comp2.usedIn)
      totalContexts == UnionSize(comp1.usedIn, comp2.usedIn)
  IN  IF totalContexts = 0 THEN RatInt(0)
      ELSE Rat(commonUsageContexts, totalContexts)

\* lines 272-289; computedStyles is a function from style keys to values
calculateVisualSimilarity(comp1, comp2) ==
  LET styles1 == comp1.styles.computedStyles
      styles2 == comp2.styles.computedStyles
      styleKeys == DOMAIN styles1 \cup DOMAIN styles2
      similarStyles ==
        Cardinality({key \in styleKeys :
                       /\ key \in DOMAIN styles1
                       /\ key \in DOMAIN styles2
                       /\ styles1[key] = styles2[key]})
  IN  IF Cardinality(styleKeys) > 0
        THEN Rat(similarStyles, Cardinality(styleKeys))
        ELSE RatInt(0)

\* lines 218-233
calculateSimilarityScore(component1, component2, type) ==
  CASE type = "semantic" -> calculateSemanticSimilarity(component1, component2)
    [] type = "usage" -> calculateUsageSimilarity(component1, component2)
    [] type = "visual" -> calculateVisualSimilarity(component1, component2)
    [] OTHER -> RatInt(0)

\* the least element of a set of positions, 0 if there is none
FirstOf(hits) == IF hits = {} THEN 0 ELSE CHOOSE i \in hits : \A j \in hits : i <= j

\* components.find(c => c.id === componentId): its position, 0 if none
FindById(components, componentId) ==
  FirstOf({i \in 1..Len(components) : components[i].id = componentId})

\* components.find(c => c.name === componentName): its position, 0 if none
FindByName(components, componentName) ==
  FirstOf({i \in 1..Len(components) : components[i].name = componentName})

\* lines 69-81
RECURSIVE CollectSimilar(_, _, _, _)
CollectSimilar(components, target, componentId, similarityType) ==
  IF components = <<>> THEN <<>>
  ELSE LET c == Head(components)
           s == calculateSimilarityScore(target, c, similarityType)
       IN  (IF c.id # componentId /\ RatLess(Rat(1, 10), s)
              THEN << [component |-> c,
                       similarityScore |-> s,
                       similarityType |-> similarityType] >>
              ELSE <<>>)
           \o CollectSimilar(Tail(components), target, componentId, similarityType)

\* a plausible slip: the list is cut to the limit before it is sorted
findSimilarComponentsCutFirst(idx, componentId, similarityType, limit) ==
  LET at == FindById(idx.components, componentId)
  IN  IF at = 0 THEN <<>>
      ELSE LET similarities ==
                 CollectSimilar(idx.components, idx.components[at], componentId, similarityType)
               cut == SubSeq(similarities, 1, Min(limit, Len(similarities)))
           IN  StableSort(cut,
                          [i \in 1..Len(cut), j \in 1..Len(cut) |->
                             RatLess(cut[j].similarityScore, cut[i].similarityScore)])

\* lines 57-86
findSimilarComponents(idx, componentId, similarityType, limit) ==
  LET at == FindById(idx.components, componentId)
  IN  IF at = 0 THEN <<>>
      ELSE LET similarities ==
                 CollectSimilar(idx.components, idx.components[at], componentId, similarityType)
               sorted ==
                 StableSort(similarities,
                            [i \in 1..Len(similarities), j \in 1..Len(similarities) |->
                               RatLess(similarities[j].similarityScore,
                                       similarities[i].similarityScore)])
           IN  SubSeq(sorted, 1, Min(limit, Len(sorted)))

\* lines 120-124
getComponentsByTag(idx, tag) == SelectSeq(idx.components, LAMBDA c : Contains(c.tags, tag))

-----------------------------------------------------------------------------
(* IndexSearchEngine: usage graph                                          *)
(*                                                                         *)
(* usageGraph.set(component.id, component.usedIn) stores the component's   *)
(* own array, so the push of line 110 writes into the loaded index.  The   *)
(* map entry of an id is the usedIn array of the last component with that  *)
(* id.                                                                     *)
(***************************************************************************)

\* the component whose usedIn array the map holds under this id
OwnerOf(components, id) ==
  CHOOSE i \in 1..Len(components) :
    /\ components[i].id = id
    /\ \A j \in 1..Len(components) : components[j].id = id => j <= i

\* a plausible slip: the page id pushed without looking whether it is there
AddPageUseUnchecked(components, pageId, componentName) ==
  LET at == FindByName(components, componentName)
  IN  IF at = 0 THEN components
      ELSE [components EXCEPT ![OwnerOf(components, components[at].id)].usedIn
                                = Append(@, pageId)]

\* lines 106-113 for one component name used by one page
AddPageUse(components, pageId, componentName) ==
  LET at == FindByName(components, componentName)
  IN  IF at = 0 THEN components
      ELSE LET owner == OwnerOf(components, components[at].id)
           IN  IF Contains(components[owner].usedIn, pageId) THEN components
               ELSE [components EXCEPT ![owner].usedIn = Append(@, pageId)]

RECURSIVE AddPageUses(_, _, _)
AddPageUses(components, pageId, names) ==
  IF names = <<>> THEN components
  ELSE AddPageUses(AddPageUse(components, pageId, Head(names)), pageId, Tail(names))

\* lines 104-115
RECURSIVE AddPages(_, _)
AddPages(components, pages) ==
  IF pages = <<>> THEN components
  ELSE AddPages(AddPageUses(components, Head(pages).id, Head(pages).components), Tail(pages))

\* the components of the index after getComponentUsageGraph has run
ComponentsAfterUsageGraph(idx) == AddPages(idx.components, idx.pages)

\* lines 95-118: the returned map, as a function from component id to its list
getComponentUsageGraph(idx) ==
  LET after == ComponentsAfterUsageGraph(idx)
  IN  [id \in {after[i].id : i \in 1..Len(after)} |-> after[OwnerOf(after, id)].usedIn]

-----------------------------------------------------------------------------
(* VisualCodeCorrelator: matching one visual element                       *)
(*                                                                         *)
(* A visual element is [text, tagName, className, bounds, attributes,      *)
(* styles]; an attribute that is null in the page is "" (the code only     *)
(* tests attributes for truth and for equality with 'button').             *)
(***************************************************************************)

Null == [null |-> TRUE]

Digits == "0123456789"

IsDigit(c) == \E d \in 1..Len(Digits) : CharAt(Digits, d) = c
DigitValue(c) == (CHOOSE d \in 1..Len(Digits) : CharAt(Digits, d) = c) - 1

\* the number of leading decimal digits of s
RECURSIVE DigitPrefixLen(_)
DigitPrefixLen(s) ==
  IF s # "" /\ IsDigit(CharAt(s, 1)) THEN 1 + DigitPrefixLen(SubSeq(s, 2, Len(s))) ELSE 0

RECURSIVE DigitsValue(_)
DigitsValue(s) ==
  IF s = "" THEN 0
  ELSE 10 * DigitsValue(SubSeq(s, 1, Len(s) - 1)) + DigitValue(CharAt(s, Len(s)))

\* parseInt of a computed style value such as "12px": the value of the leading
\* digits, or NaN when there is none
ParseInt(s) ==
  [isNaN |-> DigitPrefixLen(s) = 0, value |-> DigitsValue(SubSeq(s, 1, DigitPrefixLen(s)))]

\* String.prototype.split(sep) for a one-character separator
RECURSIVE SplitFrom(_, _, _)
SplitFrom(s, sep, current) ==
  IF s = "" THEN <<current>>
  ELSE IF CharAt(s, 1) = sep
         THEN <<current>> \o SplitFrom(SubSeq(s, 2, Len(s)), sep, "")
         ELSE SplitFrom(SubSeq(s, 2, Len(s)), sep, current \o CharAt(s, 1))

Split(s, sep) == SplitFrom(s, sep, "")

\* Array.prototype.join(sep)
RECURSIVE Join(_, _)
Join(parts, sep) ==
  IF parts = <<>> THEN ""
  ELSE IF Len(parts) = 1 THEN parts[1]
  ELSE parts[1] \o sep \o Join(Tail(parts), sep)

\* the state of the three strategies: the current best match
Match(bestMatch, confidence, matchReason) ==
  [bestMatch |-> bestMatch, confidence |-> confidence, matchReason |-> matchReason]

\* lines 254-256
NoMatch == Match(Null, RatInt(0), "")

\* a plausible slip: the divisor of the type strategy used for the text strategy
TextConfidenceTypeDivisor(relevanceScore) == RatMin(Rat(relevanceScore, 15), Rat(8, 10))

\* line 266: Math.min(relevanceScore / 20, 0.8)
TextConfidence(relevanceScore) == RatMin(Rat(relevanceScore, 20), Rat(8, 10))

\* a plausible slip: the cap of the type strategy left out
TypeConfidenceNoCap(relevanceScore) == Rat(relevanceScore, 15)

\* line 279: Math.min(relevanceScore / 15, 0.9)
TypeConfidence(relevanceScore) == RatMin(Rat(relevanceScore, 15), Rat(9, 10))

\* a plausible slip: the cap of strategy 3 set below its entry threshold of 0.6
ClassConfidenceLowCap(relevanceScore) == RatMin(Rat(relevanceScore, 12), Rat(5, 10))

\* line 297: Math.min(relevanceScore / 12, 0.7)
ClassConfidence(relevanceScore) == RatMin(Rat(relevanceScore, 12), Rat(7, 10))

\* line 258: the text strategy searches when the element has a text longer than 2
TextStrategyEntered(visualElement) ==
  visualElement.text # "" /\ Len(visualElement.text) > 2

\* lines 264-268: what the text strategy makes of the results of its search
TextOutcome(m, textResults, text) ==
  IF Len(textResults) > 0
    THEN Match(textResults[1].component,
               TextConfidence(textResults[1].relevanceScore),
               "Matched by text content: \"" \o text \o "\"")
    ELSE m

\* lines 258-269: strategy 1, search by the element's text
TextStrategy(idx, visualElement, m) ==
  IF TextStrategyEntered(visualElement)
    THEN TextOutcome(m, searchComponents(idx, TextQuery(visualElement.text)),
                     visualElement.text)
    ELSE m

\* lines 321-338; a query without text has text "", one without tags has tags <<>>
buildTypeQuery(visualElement) ==
  IF visualElement.tagName = "button" \/ visualElement.attributes.role = "button"
    THEN Query("button", <<"interactive">>, "any", "undefined", "undefined", <<>>)
  ELSE IF visualElement.tagName \in {"input", "textarea", "select"}
    THEN Query("input", <<"interactive">>, "any", "undefined", "undefined", <<>>)
  ELSE IF Includes(visualElement.className, "card")
    THEN Query("card", <<"container">>, "any", "undefined", "undefined", <<>>)
  ELSE IF visualElement.tagName = "nav"
    THEN TextQuery("navigation")
  ELSE TextQuery("")

\* `${typeQuery.text}`: an absent text prints as undefined
QueryTextInTemplate(q) == IF q.text = "" THEN "undefined" ELSE q.text

\* line 272: the type strategy searches when there is no match or a weak one
TypeStrategyEntered(m) == m.bestMatch = Null \/ RatLess(m.confidence, Rat(5, 10))

\* a plausible slip: the comparison with the standing match left out
TypeOutcomeAnyGoodScore(m, typeResults, typeQuery) ==
  IF Len(typeResults) > 0 /\ typeResults[1].relevanceScore > 5
    THEN Match(typeResults[1].component,
               TypeConfidence(typeResults[1].relevanceScore),
               "Matched by element type and props: " \o QueryTextInTemplate(typeQuery))
    ELSE m

\* lines 276-282: what the type strategy makes of the results of its search
TypeOutcome(m, typeResults, typeQuery) ==
  IF /\ Len(typeResults) > 0
     /\ typeResults[1].relevanceScore > 5
     /\ \/ m.bestMatch = Null
        \/ RatLess(RatMul(m.confidence, RatInt(20)), RatInt(typeResults[1].relevanceScore))
    THEN Match(typeResults[1].component,
               TypeConfidence(typeResults[1].relevanceScore),
               "Matched by element type and props: " \o QueryTextInTemplate(typeQuery))
    ELSE m

\* lines 272-283: strategy 2, search by element type
TypeStrategy(idx, visualElement, m) ==
  IF TypeStrategyEntered(m)
    THEN TypeOutcome(m, searchComponents(idx, buildTypeQuery(visualElement)),
                     buildTypeQuery(visualElement))
    ELSE m

\* a plausible slip: the factor of the type strategy used in the comparison
ClassTokenOutcomeTypeFactor(m, classResults, className) ==
  IF /\ Len(classResults) > 0
     /\ classResults[1].relevanceScore > 3
     /\ \/ m.bestMatch = Null
        \/ RatLess(RatMul(m.confidence, RatInt(20)), RatInt(classResults[1].relevanceScore))
    THEN Match(classResults[1].component,
               ClassConfidence(classResults[1].relevanceScore),
               "Matched by CSS class: \"" \o className \o "\"")
    ELSE m

\* lines 294-300: what strategy 3 makes of the results of the search for one class name
ClassTokenOutcome(m, classResults, className) ==
  IF /\ Len(classResults) > 0
     /\ classResults[1].relevanceScore > 3
     /\ \/ m.bestMatch = Null
        \/ RatLess(RatMul(m.confidence, RatInt(15)), RatInt(classResults[1].relevanceScore))
    THEN Match(classResults[1].component,
               ClassConfidence(classResults[1].relevanceScore),
               "Matched by CSS class: \"" \o className \o "\"")
    ELSE m

\* lines 289-300: one class name of strategy 3
ClassToken(idx, className, m) ==
  ClassTokenOutcome(m, searchComponents(idx, TextQuery(className)), className)

RECURSIVE ClassTokens(_, _, _)
ClassTokens(idx, classNames, m) ==
  IF classNames = <<>> THEN m
  ELSE ClassTokens(idx, Tail(classNames), ClassToken(idx, Head(classNames), m))

\* line 286: strategy 3 is entered when there is no match or a weak one and
\* the element has a class attribute
ClassStrategyEntered(m, visualElement) ==
  (m.bestMatch = Null \/ RatLess(m.confidence, Rat(6, 10))) /\ visualElement.className # ""

\* line 287: className.split(' ').filter(c => c.length > 2)
ClassNamesOf(visualElement) ==
  SelectSeq(Split(visualElement.className, " "), LAMBDA c : Len(c) > 2)

\* lines 286-302: strategy 3, search by CSS classes
ClassStrategy(idx, visualElement, m) ==
  IF ClassStrategyEntered(m, visualElement)
    THEN ClassTokens(idx, ClassNamesOf(visualElement), m)
    ELSE m

NewLine == "\n"

\* lines 340-354
extractRelevantCodeSnippet(c) ==
  LET sourceLines == Split(c.sourceCode, NewLine)
      returnIndex ==
        FirstOf({i \in 1..Len(sourceLines) : Includes(sourceLines[i], "return")}) - 1
  IN  IF returnIndex # -1
        THEN LET start == Max(0, returnIndex - 2)
                 end == Min(Len(sourceLines), returnIndex + 15)
             IN  Join(SubSeq(sourceLines, start + 1, end), NewLine)
        ELSE Join(SubSeq(sourceLines, 1, Min(20, Len(sourceLines))), NewLine)

\* a plausible slip: the reason of the last strategy returned as it is
FinalMatchReasonUnguarded(m) == m.matchReason

\* line 314: matchReason: bestMatch ? matchReason : 'No matching component found'
FinalMatchReason(m) ==
  IF m.bestMatch # Null THEN m.matchReason ELSE "No matching component found"

Correlation(visualElement, sourceComponent, confidence, matchReason, codeSnippet) ==
  [visualElement |-> visualElement, sourceComponent |-> sourceComponent,
   confidence |-> confidence, matchReason |-> matchReason, codeSnippet |-> codeSnippet,
   responsiveIssues |-> <<>>, recommendations |-> <<>>]

\* codeSnippet is left out of the correlation built at lines 218-225
NoSnippet == [undefined |-> TRUE]

\* the value of a one-element set
TheOne(S) == CHOOSE x \in S : TRUE

\* lines 305-318: the correlation returned for the best match m
MatchCorrelation(visualElement, m) ==
  Correlation(visualElement, m.bestMatch, m.confidence, FinalMatchReason(m),
              IF m.bestMatch # Null THEN extractRelevantCodeSnippet(m.bestMatch) ELSE "")

\* lines 241-319, with a search engine and an index: the three strategies in
\* their order, each given the best match so far
findComponentMatch(idx, visualElement) ==
  TheOne({ MatchCorrelation(visualElement, byClass) :
             byClass \in { ClassStrategy(idx, visualElement, byType) :
               byType \in { TypeStrategy(idx, visualElement, byText) :
                 byText \in { TextStrategy(idx, visualElement, NoMatch) } } } })

\* a plausible slip: both sides must be short for the touch target to be reported
analyzeResponsiveIssuesBothSides(element) ==
  LET fontSize == ParseInt(element.styles.fontSize)
  IN  (IF element.bounds.width < 44 /\ element.bounds.height < 44
         THEN << "Touch target too small: " \o ToString(element.bounds.width) \o "x"
                   \o ToString(element.bounds.height) \o "px (minimum 44x44px)" >>
         ELSE <<>>)
      \o (IF ~fontSize.isNaN /\ fontSize.value # 0 /\ fontSize.value < 14
            THEN << "Font size too small: " \o ToString(fontSize.value)
                      \o "px (minimum 14px for mobile)" >>
            ELSE <<>>)
      \o (IF /\ element.styles.color # ""
             /\ element.styles.backgroundColor # ""
             /\ element.styles.color = element.styles.backgroundColor
            THEN <<"Potential color contrast issue">>
            ELSE <<>>)

\* lines 356-379
analyzeResponsiveIssues(element) ==
  LET fontSize == ParseInt(element.styles.fontSize)
  IN  (IF element.bounds.width < 44 \/ element.bounds.height < 44
         THEN << "Touch target too small: " \o ToString(element.bounds.width) \o "x"
                   \o ToString(element.bounds.height) \o "px (minimum 44x44px)" >>
         ELSE <<>>)
      \o (IF ~fontSize.isNaN /\ fontSize.value # 0 /\ fontSize.value < 14
            THEN << "Font size too small: " \o ToString(fontSize.value)
                      \o "px (minimum 14px for mobile)" >>
            ELSE <<>>)
      \o (IF /\ element.styles.color # ""
             /\ element.styles.backgroundColor # ""
             /\ element.styles.color = element.styles.backgroundColor
            THEN <<"Potential color contrast issue">>
            ELSE <<>>)

\* lines 381-401
generateRecommendations(element, c) ==
  (IF element.bounds.width < 44 \/ element.bounds.height < 44
     THEN <<"Increase padding or min-height/min-width to meet 44px touch target minimum">>
     ELSE <<>>)
  \o (IF element.attributes.ariaLabel = "" /\ element.text = ""
        THEN <<"Add aria-label for better accessibility">>
        ELSE <<>>)
  \o (IF c # Null /\ Len(c.props) > 8
        THEN <<"Consider breaking down this component - it has many props and might be too complex">>
        ELSE <<>>)
  \o (IF element.tagName = "div" /\ element.attributes.role = "button"
        THEN <<"Consider using a semantic <button> element instead of div with button role">>
        ELSE <<>>)

\* lines 217-235 for one element; engine and idx are the correlator's
\* searchEngine and projectIndex, Null when not set
WithResponsive(found, element) ==
  [found EXCEPT !.responsiveIssues = analyzeResponsiveIssues(element),
                !.recommendations = generateRecommendations(element, found.sourceComponent)]

CorrelateElement(engine, idx, element) ==
  TheOne({ WithResponsive(found, element) :
             found \in { IF engine # Null /\ idx # Null
                           THEN findComponentMatch(engine, element)
                           ELSE Correlation(element, Null, RatInt(0),
                                            "No project index available", NoSnippet) } })

\* lines 214-239
correlateElementsWithComponents(engine, idx, visualElements) ==
  [i \in 1..Len(visualElements) |-> CorrelateElement(engine, idx, visualElements[i])]

\* lines 403-420
generateSummary(correlations) ==
  LET matched == Cardinality({i \in 1..Len(correlations) :
                                correlations[i].sourceComponent # Null})
      Issues[i \in 0..Len(correlations)] ==
        IF i = 0 THEN 0 ELSE Issues[i - 1] + Len(correlations[i].responsiveIssues)
  IN  [totalElements |-> Len(correlations),
       matchedComponents |-> matched,
       unmatchedElements |-> Len(correlations) - matched,
       criticalIssues |-> Issues[Len(correlations)]]

-----------------------------------------------------------------------------
(* The index artifact on disk *)

\* the content of a file: a JSON document, something that does not parse, or no file
JsonFile(value) == [kind |-> "json", value |-> value]
GarbageFile == [kind |-> "garbage"]
NoFile == [kind |-> "missing"]

\* ui-context.ts lines 803-812: the parsed artifact, or null when the file
\* cannot be read or parsed
loadIndex(files, projectPath) ==
  IF files[projectPath].kind = "json" THEN files[projectPath].value ELSE Null

-----------------------------------------------------------------------------
(* BrowserManager: browser and context are TRUE when not null *)

ClosedBrowser == [browser |-> FALSE, context |-> FALSE]

Outcome(bm, threw) == [bm |-> bm, threw |-> threw]

\* part_001 lines 229-256; failAt names the call that fails in this run, if any
initialize(bm, failAt) ==
  IF bm.browser THEN Outcome(bm, FALSE)
  ELSE IF failAt = "launch" THEN Outcome(bm, TRUE)
  ELSE IF failAt = "newContext" THEN Outcome([bm EXCEPT !.browser = TRUE], TRUE)
  ELSE Outcome([browser |-> TRUE, context |-> TRUE], FALSE)

\* part_001 lines 270-290; this.context!.newPage() throws when context is null
createPage(bm, failAt) ==
  LET started == IF ~bm.context THEN initialize(bm, failAt) ELSE Outcome(bm, FALSE)
  IN  IF started.threw THEN started
      ELSE IF ~started.bm.context THEN Outcome(started.bm, TRUE)
      ELSE IF failAt = "newPage" THEN Outcome(started.bm, TRUE)
      ELSE started

\* part_001 lines 309-318
close(bm) == ClosedBrowser

\* part_001 lines 324-326
isInitialized(bm) == bm.browser /\ bm.context

-----------------------------------------------------------------------------
(* VisualCodeCorrelator: the page and the elements extracted from it       *)
(*                                                                         *)
(* A DOM element is [tagName, text, className, rect, display, attributes,  *)
(* styles]; an attribute the element does not have is "".                  *)
(***************************************************************************)

Selector(kind, arg) == [kind |-> kind, arg |-> arg]

ButtonSelectors ==
  << Selector("tag", "button"), Selector("role", "button"),
     Selector("inputType", "submit"), Selector("inputType", "button") >>
InputSelectors == << Selector("tag", "input"), Selector("tag", "textarea"), Selector("tag", "select") >>
CardSelectors ==
  << Selector("class", "card"), Selector("classContains", "card"),
     Selector("testidContains", "card") >>

\* lines 122-139
getSelectorsForType(type) ==
  CASE type = "button" -> ButtonSelectors
    [] type = "input" -> InputSelectors
    [] type = "card" -> CardSelectors
    [] OTHER ->
         ButtonSelectors \o InputSelectors \o CardSelectors
           \o << Selector("tag", "nav"), Selector("tag", "header"), Selector("tag", "main"),
                 Selector("tag", "section"), Selector("tag", "article"),
                 Selector("has", "onclick"), Selector("aHref", "") >>

\* document.querySelectorAll(selector) on one element
SelectorMatches(sel, el) ==
  CASE sel.kind = "tag" -> el.tagName = sel.arg
    [] sel.kind = "role" -> el.attributes.role = sel.arg
    [] sel.kind = "inputType" -> el.tagName = "input" /\ el.attributes.type = sel.arg
    [] sel.kind = "class" -> Contains(Split(el.className, " "), sel.arg)
    [] sel.kind = "classContains" -> Includes(el.className, sel.arg)
    [] sel.kind = "testidContains" -> Includes(el.attributes.testid, sel.arg)
    [] sel.kind = "has" -> el.attributes.onclick # ""
    [] sel.kind = "aHref" -> el.tagName = "a" /\ el.attributes.href # ""

\* lines 175-206: the record built for an element that is kept
VisualElement(el) ==
  [text |-> el.text, tagName |-> el.tagName, className |-> el.className,
   bounds |-> [width |-> el.rect.width, height |-> el.rect.height],
   attributes |-> [role |-> el.attributes.role, ariaLabel |-> el.attributes.ariaLabel,
                   type |-> el.attributes.type],
   styles |-> el.styles]

\* lines 166-207 for one selector: the visible elements it matches, in document order
ElementsOf(sel, dom) ==
  LET kept == SelectSeq(dom, LAMBDA el :
                /\ SelectorMatches(sel, el)
                /\ ~(el.rect.width = 0 \/ el.rect.height = 0 \/ el.display = "none"))
  IN  [i \in 1..Len(kept) |-> VisualElement(kept[i])]

RECURSIVE ElementsOfAll(_, _)
ElementsOfAll(selectors, dom) ==
  IF selectors = <<>> THEN <<>>
  ELSE ElementsOf(Head(selectors), dom) \o ElementsOfAll(Tail(selectors), dom)

\* lines 120-212
extractTargetElements(dom, elementType) == ElementsOfAll(getSelectorsForType(elementType), dom)

-----------------------------------------------------------------------------
(* ProjectIndexer: the project tree                                        *)
(*                                                                         *)
(* A file is [path, sourceCode, mtime, readable, imports, props, jsdoc]:   *)
(* path is absolute, readable is FALSE when fs.readFile rejects, imports,  *)
(* props and jsdoc are what the regular expressions of extractImports,     *)
(* extractProps and generateDescription capture from the text (jsdoc "" if *)
(* the text has no JSDoc block).  The tree is the sequence of its files in *)
(* the order in which fs.readdir lists them.                               *)
(***************************************************************************)

\* a Date; a string of the JSON artifact that stands where a Date stood
Date(ms) == [type |-> "Date", ms |-> ms]
JsonString(value) == [type |-> "string", value |-> value]

\* String.prototype.startsWith / endsWith
StartsWith(s, t) == Len(t) <= Len(s) /\ SubSeq(s, 1, Len(t)) = t
EndsWith(s, t) == Len(t) <= Len(s) /\ SubSeq(s, Len(s) - Len(t) + 1, Len(s)) = t

\* path.join(dirPath, name)
PathJoin(dirPath, name) == dirPath \o "/" \o name

\* path.relative(projectPath, filePath) for a file under projectPath
PathRelative(projectPath, filePath) == SubSeq(filePath, Len(projectPath) + 2, Len(filePath))

\* path.basename(filePath)
PathBasename(filePath) ==
  LET parts == Split(filePath, "/") IN parts[Len(parts)]

\* the positions of seq that satisfy keep (a set), in increasing order
RECURSIVE InOrder(_, _)
InOrder(n, keep) ==
  IF n = 0 THEN <<>>
  ELSE IF n \in keep THEN Append(InOrder(n - 1, keep), n) ELSE InOrder(n - 1, keep)

\* line 598: fs.readdir(dirPath, {withFileTypes: true}); a directory that
\* does not exist has no entries (the catch of line 609)
ReadDir(tree, dirPath) ==
  LET under == SelectSeq(tree, LAMBDA f : StartsWith(f.path, dirPath \o "/"))
      rest == [i \in 1..Len(under) |->
                 SubSeq(under[i].path, Len(dirPath) + 2, Len(under[i].path))]
      names == [i \in 1..Len(under) |-> Split(rest[i], "/")[1]]
      first == {i \in 1..Len(under) : \A j \in 1..(i - 1) : names[j] # names[i]}
      order == InOrder(Len(under), first)
  IN  [k \in 1..Len(order) |->
         [name |-> names[order[k]],
          isDirectory |-> Includes(rest[order[k]], "/") \/ under[order[k]].isDirectory]]

\* fs.readdir throws on a directory that cannot be read
ReadDirThrows(tree, dirPath) ==
  \E i \in 1..Len(tree) :
    tree[i].path = dirPath /\ tree[i].isDirectory /\ ~tree[i].readable

ComponentExtensions == <<".tsx", ".jsx", ".vue", ".ts", ".js">>

\* lines 616-626
isComponentFile(fileName) ==
  LET hasValidExtension ==
        \E i \in 1..Len(ComponentExtensions) : EndsWith(fileName, ComponentExtensions[i])
      isComponentName ==
        \/ fileName # "" /\ IsUpperChar(CharAt(fileName, 1))
        \/ Includes(ToLowerCase(fileName), "component")
  IN  hasValidExtension /\ isComponentName

\* lines 594-614: depth first, in the order of readdir
RECURSIVE findComponentFiles(_, _)
RECURSIVE WalkEntries(_, _, _)
WalkEntries(tree, dirPath, entries) ==
  IF entries = <<>> THEN <<>>
  ELSE LET entry == Head(entries)
           fullPath == PathJoin(dirPath, entry.name)
           found ==
             IF /\ entry.isDirectory
                /\ ~StartsWith(entry.name, ".")
                /\ entry.name # "node_modules"
               THEN findComponentFiles(tree, fullPath)
             ELSE IF ~entry.isDirectory /\ isComponentFile(entry.name)
               THEN <<fullPath>>
             ELSE <<>>
       IN  found \o WalkEntries(tree, dirPath, Tail(entries))

findComponentFiles(tree, dirPath) ==
  IF ReadDirThrows(tree, dirPath) THEN <<>>
  ELSE WalkEntries(tree, dirPath, ReadDir(tree, dirPath))

\* s.replace(/[/\\]/g, '_')
RECURSIVE ReplaceSeparators(_)
ReplaceSeparators(s) ==
  IF s = "" THEN ""
  ELSE (IF CharAt(s, 1) \in {"/", "\\"} THEN "_" ELSE CharAt(s, 1))
         \o ReplaceSeparators(SubSeq(s, 2, Len(s)))

\* s.replace(/\.[^.]+$/, ''): from the last dot on, when something follows it
StripExtension(s) ==
  LET dots == {i \in 1..Len(s) : CharAt(s, i) = "."}
      last == IF dots = {} THEN 0 ELSE CHOOSE i \in dots : \A j \in dots : j <= i
  IN  IF last = 0 \/ last = Len(s) THEN s ELSE SubSeq(s, 1, last - 1)

\* lines 699-701
generateComponentId(projectPath, filePath) ==
  StripExtension(ReplaceSeparators(PathRelative(projectPath, filePath)))

SourceSuffixes == <<".tsx", ".ts", ".jsx", ".js", ".vue">>

\* fileName.replace(/\.(tsx?|jsx?|vue)$/, '')
StripSourceSuffix(fileName) ==
  LET hits == {i \in 1..Len(SourceSuffixes) : EndsWith(fileName, SourceSuffixes[i])}
  IN  IF hits = {} THEN fileName
      ELSE LET suffix == SourceSuffixes[CHOOSE i \in hits : TRUE]
           IN  SubSeq(fileName, 1, Len(fileName) - Len(suffix))

\* lines 703-711
generateDescription(name, file) ==
  IF file.jsdoc # "" THEN file.jsdoc ELSE name \o " component"

\* lines 713-723
generateTags(sourceCode) ==
  (IF Includes(sourceCode, "useState") THEN <<"stateful">> ELSE <<>>)
  \o (IF Includes(sourceCode, "useEffect") THEN <<"side-effects">> ELSE <<>>)
  \o (IF Includes(sourceCode, "props.children") THEN <<"container">> ELSE <<>>)
  \o (IF Includes(sourceCode, "onClick") \/ Includes(sourceCode, "onPress")
        THEN <<"interactive">> ELSE <<>>)
  \o (IF Includes(sourceCode, "styled") \/ Includes(sourceCode, "className")
        THEN <<"styled">> ELSE <<>>)

EmptyObject == [key \in {} |-> ""]

\* the file at filePath
FileAt(tree, filePath) == tree[CHOOSE i \in 1..Len(tree) : tree[i].path = filePath]

\* lines 628-658, for a file that can be read
analyzeComponent(projectPath, file) ==
  LET componentName == StripSourceSuffix(PathBasename(file.path))
  IN  [id |-> generateComponentId(projectPath, file.path),
       name |-> componentName,
       filePath |-> PathRelative(projectPath, file.path),
       sourceCode |-> file.sourceCode,
       screenshots |-> EmptyObject,
       bounds |-> EmptyObject,
       props |-> file.props,
       imports |-> file.imports,
       dependencies |-> <<>>,
       styles |-> [css |-> "", computedStyles |-> EmptyObject],
       usedIn |-> <<>>,
       children |-> <<>>,
       description |-> generateDescription(componentName, file),
       tags |-> generateTags(file.sourceCode),
       lastModified |-> Date(file.mtime)]

\* lines 581-588: the records of the files that can be read, in their order
RECURSIVE AnalyzeComponents(_, _, _)
AnalyzeComponents(projectPath, tree, filePaths) ==
  IF filePaths = <<>> THEN <<>>
  ELSE LET file == FileAt(tree, Head(filePaths))
       IN  (IF file.readable THEN <<analyzeComponent(projectPath, file)>> ELSE <<>>)
             \o AnalyzeComponents(projectPath, tree, Tail(filePaths))

WordChars == UpperCase \o LowerCase \o Digits \o "_"

IsWordChar(c) == \E i \in 1..Len(WordChars) : CharAt(WordChars, i) = c

\* the end of the longest run of word characters of s that starts at position from
RECURSIVE WordEnd(_, _)
WordEnd(s, from) ==
  IF from < Len(s) /\ IsWordChar(CharAt(s, from + 1)) THEN WordEnd(s, from + 1) ELSE from

\* lines 771-782: the names matched by /<([A-Z]\w*)/g from position from on,
\* each once, in the order of their first match
RECURSIVE UsedComponentsFrom(_, _, _)
UsedComponentsFrom(s, from, seen) ==
  IF from >= Len(s) THEN seen
  ELSE IF CharAt(s, from) = "<" /\ IsUpperChar(CharAt(s, from + 1))
    THEN LET end == WordEnd(s, from + 1)
             name == SubSeq(s, from + 1, end)
         IN  UsedComponentsFrom(s, end + 1,
                                IF Contains(seen, name) THEN seen ELSE Append(seen, name))
  ELSE UsedComponentsFrom(s, from + 1, seen)

extractUsedComponents(sourceCode) == UsedComponentsFrom(sourceCode, 1, <<>>)

\* lines 784-789
generateRouteFromFileName(fileName) ==
  IF ToLowerCase(fileName) = "index" \/ ToLowerCase(fileName) = "home"
    THEN "/"
    ELSE "/" \o ToLowerCase(fileName)

\* lines 753-769, for a file that can be read
analyzePage(projectPath, file) ==
  LET pageName == StripSourceSuffix(PathBasename(file.path))
  IN  [id |-> generateComponentId(projectPath, file.path),
       name |-> pageName,
       route |-> generateRouteFromFileName(pageName),
       filePath |-> PathRelative(projectPath, file.path),
       components |-> extractUsedComponents(file.sourceCode),
       screenshots |-> EmptyObject]

\* lines 732-739
RECURSIVE AnalyzePages(_, _, _)
AnalyzePages(projectPath, tree, filePaths) ==
  IF filePaths = <<>> THEN <<>>
  ELSE LET file == FileAt(tree, Head(filePaths))
       IN  (IF file.readable THEN <<analyzePage(projectPath, file)>> ELSE <<>>)
             \o AnalyzePages(projectPath, tree, Tail(filePaths))

\* package.json: the parsed document, or a file that is missing or is not JSON
PackageJson(dependencies, devDependencies) ==
  [kind |-> "json", dependencies |-> dependencies, devDependencies |-> devDependencies]

\* lines 507-521: the index of a new ProjectIndexer
NewIndex(projectPath, now) ==
  [metadata |-> [projectPath |-> projectPath, framework |-> "unknown",
                 lastIndexed |-> Date(now), componentsCount |-> 0, pagesCount |-> 0],
   components |-> <<>>,
   pages |-> <<>>]

\* lines 556-575: the framework is assigned only when one is detected
analyzeProjectStructure(idx, packageJson) ==
  IF packageJson.kind # "json" THEN idx
  ELSE IF "react" \in packageJson.dependencies \cup packageJson.devDependencies
    THEN [idx EXCEPT !.metadata.framework = "react"]
  ELSE IF "vue" \in packageJson.dependencies \cup packageJson.devDependencies
    THEN [idx EXCEPT !.metadata.framework = "vue"]
  ELSE IF "@angular/core" \in packageJson.dependencies
    THEN [idx EXCEPT !.metadata.framework = "angular"]
  ELSE idx

\* line 584: this.index.components.push(component) for every record of the run
ComponentsAfterRun(components, found) == components \o found

\* a plausible slip: the count is the number of records of this run
discoverComponentsCountOfRun(idx, tree) ==
  LET projectPath == idx.metadata.projectPath
      found == AnalyzeComponents(projectPath, tree,
                                 findComponentFiles(tree, PathJoin(projectPath, "src")))
  IN  [idx EXCEPT !.components = ComponentsAfterRun(idx.components, found),
                  !.metadata.componentsCount = Len(found)]

\* lines 577-592
discoverComponents(idx, tree) ==
  LET projectPath == idx.metadata.projectPath
      found == AnalyzeComponents(projectPath, tree,
                                 findComponentFiles(tree, PathJoin(projectPath, "src")))
      components == ComponentsAfterRun(idx.components, found)
  IN  [idx EXCEPT !.components = components,
                  !.metadata.componentsCount = Len(components)]

\* lines 725-746
discoverPages(idx, tree) ==
  LET projectPath == idx.metadata.projectPath
      found == AnalyzePages(projectPath, tree,
                            findComponentFiles(tree, PathJoin(PathJoin(projectPath, "src"),
                                                              "pages")))
      pages == idx.pages \o found
  IN  [idx EXCEPT !.pages = pages, !.metadata.pagesCount = Len(pages)]

\* Date.prototype.toISOString for a time within the first second of the epoch
toISOString(date) ==
  LET ms == ToString(date.ms)
      padded == SubSeq("000", 1, 3 - Len(ms)) \o ms
  IN  "1970-01-01T00:00:00." \o padded \o "Z"

\* JSON.stringify of a Date: the string of Date.prototype.toJSON
DateThroughJson(date) == JsonString(toISOString(date))

\* line 799: the document JSON.stringify(this.index) writes; it differs from
\* the index in its Date values
ThroughJson(idx) ==
  [idx EXCEPT
     !.metadata.lastIndexed = DateThroughJson(idx.metadata.lastIndexed),
     !.components = [i \in 1..Len(idx.components) |->
                       [idx.components[i] EXCEPT
                          !.lastModified = DateThroughJson(idx.components[i].lastModified)]]]

\* lines 797-801: the file written
saveIndex(idx) == JsonFile(ThroughJson(idx))

-----------------------------------------------------------------------------
(* The indexes and queries the engine is exercised with *)

NoStyles == [key \in {} |-> ""]

Component(id, name, description, sourceCode, props, imports, tags, usedIn, computedStyles) ==
  [id |-> id, name |-> name, description |-> description, sourceCode |-> sourceCode,
   props |-> props, imports |-> imports, tags |-> tags, usedIn |-> usedIn,
   styles |-> [css |-> "", computedStyles |-> computedStyles]]

Prop(name, type) == [name |-> name, type |-> type, required |-> TRUE]

\* the component of the SubmitButton scenario: an onClick usage, the default description
SubmitButton ==
  Component("src_SubmitButton", "SubmitButton", "SubmitButton component",
            "const S = (p) => <a onClick={p.go}/>",
            <<>>, <<"react">>, <<"interactive">>, <<>>, NoStyles)

\* the same component with a source text that names the element too
SubmitButtonJsx ==
  Component("src_ui_SubmitButton", "SubmitButton", "SubmitButton component",
            "const S = (p) => <button onClick={p.go}/>",
            <<Prop("buttonType", "string")>>, <<"react">>, <<"interactive">>, <<>>, NoStyles)

IconButton ==
  Component("src_IconButton", "IconButton", "Icon component",
            "class I extends C { useEffect onClick className }",
            <<Prop("label", "string"), Prop("size", "string"), Prop("onClick", "Fn")>>,
            <<"react", "react", "clsx">>, <<"side-effects", "interactive", "styled">>,
            <<"src_pages_Home", "src_pages_Home">>,
            [key \in {"color", "display"} |-> IF key = "color" THEN "red" ELSE "block"])

Card ==
  Component("src_Card", "Card", "A card for buttons",
            "function Card(props) { return props.children }",
            <<Prop("title", "string")>>, <<"react", "clsx">>, <<"container">>,
            <<"src_pages_Home">>,
            [key \in {"color"} |-> "red"])

NavBar ==
  Component("src_NavBar", "NavBar", "NavBar component",
            "var nav = 1",
            <<>>, <<>>, <<>>, <<>>, NoStyles)

ComponentPool == {SubmitButton, IconButton, Card, NavBar}

\* a component described by a JSDoc comment, with two props named after it
ToggleSwitch ==
  Component("src_ToggleSwitch", "ToggleSwitch", "An on/off control",
            "const T = (p) => <input onChange={p.go}/>",
            <<Prop("toggleOn", "boolean"), Prop("onToggle", "Fn")>>,
            <<"react">>, <<>>, <<>>, NoStyles)

Page(id, components) == [id |-> id, components |-> components]

\* the pages an index may hold, in their order in the index
PagePool ==
  << Page("src_pages_Home", <<"Card", "IconButton">>),
     Page("src_pages_About", <<"Card", "Missing", "NavBar">>) >>

\* the sequences of distinct elements of S of length 0..n
DistinctSeqs(S, n) ==
  UNION {{f \in [1..k -> S] : \A i, j \in 1..k : i # j => f[i] # f[j]} : k \in 0..n}

\* the sequences over S of length 0..n
SeqsUpTo(S, n) == UNION {[1..k -> S] : k \in 0..n}

IndexSet ==
  {[components |-> cs, pages |-> SelectSeq(PagePool, LAMBDA p : p.id \in keep)] :
     cs \in DistinctSeqs(ComponentPool, MaxComponents),
     keep \in SUBSET {PagePool[i].id : i \in 1..Len(PagePool)}}

TagNames == {"interactive", "side-effects", "container"}

\* every combination of the query fields
FullQuerySet ==
  {Query(text, tags, componentType, hasProps, hasSideEffects, usedIn) :
     text \in {"", "button", "Card"},
     tags \in SeqsUpTo(TagNames, MaxQueryTags),
     componentType \in {"any", "functional", "class"},
     hasProps \in {"undefined", "true", "false"},
     hasSideEffects \in {"undefined", "true", "false"},
     usedIn \in {<<>>, <<"src_pages_Home">>}}

\* the queries run against whole indexes
SearchQuerySet ==
  {Query(text, tags, componentType, hasProps, "undefined", usedIn) :
     text \in {"", "button", "card"},
     tags \in {<<>>, <<"interactive">>},
     componentType \in {"any", "class"},
     hasProps \in {"undefined", "true"},
     usedIn \in {<<>>, <<"src_pages_Home">>}}

ComponentIds == {c.id : c \in ComponentPool} \cup {"src_Missing"}

SimilarityTypes == {"semantic", "usage", "visual"}

NoCall == [op |-> "none"]
NoComponent == [id |-> "none"]

-----------------------------------------------------------------------------
(* The pages and artifacts the correlator is exercised with *)

MaxElements == 1        \* elements of the page analysed

ProjectPaths == {"/proj", "/empty"}

Dom(tagName, text, className, width, height, display, role, type, onclick, fontSize, color,
    backgroundColor) ==
  [tagName |-> tagName, text |-> text, className |-> className,
   rect |-> [width |-> width, height |-> height], display |-> display,
   attributes |-> [role |-> role, ariaLabel |-> "", type |-> type, testid |-> "",
                   onclick |-> onclick, href |-> IF tagName = "a" THEN "/" ELSE ""],
   styles |-> [fontSize |-> fontSize, color |-> color, backgroundColor |-> backgroundColor]]

DomPool ==
  { Dom("button", "Submit", "btn primary", 30, 30, "block", "", "submit", "", "12px",
        "rgb(0, 0, 0)", "rgb(0, 0, 0)"),
    Dom("button", "", "", 120, 48, "block", "", "", "", "16px", "rgb(0, 0, 0)",
        "rgb(255, 255, 255)"),
    Dom("div", "OK", "icon", 44, 44, "block", "button", "", "go()", "16px", "rgb(0, 0, 0)",
        "rgb(255, 255, 255)"),
    Dom("nav", "Hi", "", 800, 60, "flex", "", "", "", "14px", "rgb(0, 0, 0)",
        "rgb(255, 255, 255)"),
    Dom("section", "zzz", "", 800, 400, "block", "", "", "", "", "", ""),
    Dom("div", "A card", "card wide", 300, 200, "block", "", "", "", "16px", "rgb(0, 0, 0)",
        "rgb(255, 255, 255)"),
    Dom("input", "", "icon xs", 200, 40, "block", "", "text", "", "13px", "rgb(0, 0, 0)",
        "rgb(255, 255, 255)"),
    Dom("input", "", "", 0, 0, "none", "", "submit", "", "16px", "rgb(0, 0, 0)",
        "rgb(255, 255, 255)"),
    Dom("a", "component", "nav-link", 30, 30, "inline", "", "", "", "16px", "rgb(0, 0, 0)",
        "rgb(255, 255, 255)"),
    Dom("button", "Toggle", "", 50, 50, "block", "", "", "", "16px", "rgb(0, 0, 0)",
        "rgb(255, 255, 255)") }

\* the indexes an artifact may hold
ArtifactIndexes ==
  { [components |-> <<NavBar, Card, IconButton, SubmitButton>>, pages |-> PagePool],
    [components |-> <<IconButton, NavBar>>, pages |-> <<>>],
    [components |-> <<Card, ToggleSwitch>>, pages |-> <<>>],
    [components |-> <<>>, pages |-> <<>>] }

ElementTypes == {"button", "input", "card", "all", "undefined"}

\* indexer-cli.ts lines 489-494: the values of focusElement, "undefined" when left out
FocusElements == {"buttons", "forms", "cards", "navigation", "all", "undefined"}

\* the call of BrowserManager or of the page that fails during an analysis, if any
FailurePoints == {"none", "launch", "newContext", "newPage", "goto"}

NoAnalysis == [status |-> "none"]

-----------------------------------------------------------------------------
(* The project trees the indexer is exercised with *)

MaxFiles == 2           \* files of the project tree
MaxRuns == 2            \* indexProject runs of a behaviour

ProjectPath == "/proj"

File(path, sourceCode, mtime, readable) ==
  [path |-> path, isDirectory |-> FALSE, sourceCode |-> sourceCode, mtime |-> mtime,
   readable |-> readable, imports |-> <<>>, props |-> <<>>, jsdoc |-> ""]

\* a directory of the tree that is listed for its own sake: one that cannot be read
Directory(path, readable) == [path |-> path, isDirectory |-> TRUE, readable |-> readable]

\* the files a tree may hold, in the order in which readdir lists them
FilePool ==
  << File("/proj/src/Button.tsx", "const B = (p) => <button onClick={p.go}/>", 1, TRUE),
     File("/proj/src/Button.jsx", "export const B = () => <a className='b'/>", 2, TRUE),
     File("/proj/src/ui/Card.tsx", "function Card(props) { return props.children }", 3, TRUE),
     File("/proj/src/pages/Home.tsx", "const H = () => <Card><Button/><Card/></Card>", 4, TRUE),
     File("/proj/src/utils.ts", "export const sum = 1", 5, TRUE),
     File("/proj/src/node_modules/Lib.js", "useState", 6, TRUE),
     File("/proj/src/Broken.tsx", "", 7, FALSE),
     Directory("/proj/src/Locked", FALSE),
     File("/proj/src/Locked/Vault.tsx", "const V = () => <Button/>", 8, TRUE) >>

\* the trees of at most MaxFiles files
TreeSet ==
  {SelectSeq(FilePool, LAMBDA f : f.path \in keep) :
     keep \in {k \in SUBSET {FilePool[i].path : i \in 1..Len(FilePool)} :
                 Cardinality(k) <= MaxFiles}}

ManifestPool ==
  { [kind |-> "missing"], [kind |-> "garbage"],
    PackageJson({"vue"}, {"react"}), PackageJson({}, {"@angular/core"}) }

Indexers == {1, 2}

\* the time at which the indexers were constructed
ConstructedAt == 0

IndexFailurePoints == {"none", "launch", "writeFile"}

-----------------------------------------------------------------------------
(* The engine as a state machine: an index is loaded, then queried *)

\* the variables of the parts that a specification does not exercise
SearchIdle == index = [components |-> <<>>, pages |-> <<>>] /\ call = NoCall /\ ret = <<>>
ScoreIdle ==
  /\ component = NoComponent
  /\ query = TextQuery("")
  /\ pc = "idle"
  /\ score = 0
  /\ matches = <<>>
CorrelatorIdle ==
  /\ disk = [p \in ProjectPaths |-> NoFile]
  /\ projectIndex = Null
  /\ searchEngine = Null
  /\ browserManager = ClosedBrowser
  /\ analysis = NoAnalysis

IndexerIdle ==
  /\ projectTree = <<>>
  /\ manifest = [kind |-> "missing"]
  /\ indexers = <<>>
  /\ history = <<>>

StringIdle == strA = "" /\ strB = "" /\ stringSimilarity = [computed |-> FALSE]

NoCapture == [status |-> "none"]

CaptureIdle == elementAt = <<>> /\ visualAnalyzer = ClosedBrowser /\ capture = NoCapture

NoStep == [strategy |-> "none"]

ArbitrationIdle ==
  /\ visualTarget = [none |-> TRUE]
  /\ stage = "idle"
  /\ matchSoFar = [none |-> TRUE]
  /\ pending = <<>>
  /\ lastStep = NoStep
  /\ trail = <<>>

SnippetIdle == snippetComponent = [none |-> TRUE] /\ snippetTaken = [taken |-> FALSE]

ContextIdle == serverManager = [null |-> TRUE] /\ uiContext = [status |-> "none"]

InitSearch ==
  /\ index \in IndexSet
  /\ call = NoCall
  /\ ret = <<>>
  /\ ScoreIdle
  /\ CorrelatorIdle
  /\ IndexerIdle
  /\ StringIdle
  /\ CaptureIdle
  /\ ArbitrationIdle
  /\ SnippetIdle
  /\ ContextIdle

SearchComponents(q) ==
  /\ call = NoCall
  /\ call' = [op |-> "searchComponents", query |-> q]
  /\ ret' = searchComponents(index, q)
  /\ UNCHANGED <<index, scoreVars, correlatorVars, indexerVars, stringVars, captureVars,
                 arbitrationVars, snippetVars, contextVars>>

FindSimilarComponents(componentId, similarityType, limit) ==
  /\ call = NoCall
  /\ call' = [op |-> "findSimilarComponents", componentId |-> componentId,
              similarityType |-> similarityType, limit |-> limit]
  /\ ret' = findSimilarComponents(index, componentId, similarityType, limit)
  /\ UNCHANGED <<index, scoreVars, correlatorVars, indexerVars, stringVars, captureVars,
                 arbitrationVars, snippetVars, contextVars>>

GetComponentUsageGraph ==
  /\ call = NoCall
  /\ call' = [op |-> "getComponentUsageGraph"]
  /\ ret' = getComponentUsageGraph(index)
  /\ index' = [index EXCEPT !.components = ComponentsAfterUsageGraph(index)]
  /\ UNCHANGED <<scoreVars, correlatorVars, indexerVars, stringVars, captureVars, arbitrationVars,
                 snippetVars, contextVars>>

GetComponentsByTag(tag) ==
  /\ call = NoCall
  /\ call' = [op |-> "getComponentsByTag", tag |-> tag]
  /\ ret' = getComponentsByTag(index, tag)
  /\ UNCHANGED <<index, scoreVars, correlatorVars, indexerVars, stringVars, captureVars,
                 arbitrationVars, snippetVars, contextVars>>

\* the caller takes the result; the engine is idle until the next call
Return ==
  /\ call # NoCall
  /\ call' = NoCall
  /\ ret' = <<>>
  /\ UNCHANGED <<index, scoreVars, correlatorVars, indexerVars, stringVars, captureVars,
                 arbitrationVars, snippetVars, contextVars>>

NextSearch ==
  \/ \E q \in SearchQuerySet : SearchComponents(q)
  \/ \E componentId \in ComponentIds, similarityType \in SimilarityTypes, limit \in 0..MaxLimit :
       FindSimilarComponents(componentId, similarityType, limit)
  \/ GetComponentUsageGraph
  \/ \E tag \in TagNames : GetComponentsByTag(tag)
  \/ Return

SpecSearch == InitSearch /\ [][NextSearch]_vars

-----------------------------------------------------------------------------
(* One pass of the loop of searchComponents (lines 40-51) over one component *)

InitScore ==
  /\ component \in ComponentPool \cup {SubmitButtonJsx}
  /\ query \in FullQuerySet
  /\ pc = "input"
  /\ score = 0
  /\ matches = <<>>
  /\ SearchIdle
  /\ CorrelatorIdle
  /\ IndexerIdle
  /\ StringIdle
  /\ CaptureIdle
  /\ ArbitrationIdle
  /\ SnippetIdle
  /\ ContextIdle

ScoreComponent ==
  /\ pc = "input"
  /\ pc' = "scored"
  /\ score' = calculateRelevanceScore(component, query)
  /\ matches' = IF score' > 0 THEN findMatches(component, query) ELSE <<>>
  /\ UNCHANGED <<searchVars, correlatorVars, indexerVars, stringVars, captureVars,
                 component, query, arbitrationVars, snippetVars, contextVars>>

NextScore == ScoreComponent

SpecScore == InitScore /\ [][NextScore]_vars

-----------------------------------------------------------------------------
(* The correlator as a state machine: analyses run one after another on    *)
(* one VisualCodeCorrelator                                                *)
(***************************************************************************)

InitCorrelator ==
  /\ \E artifact \in {JsonFile(idx) : idx \in ArtifactIndexes} \cup {GarbageFile, NoFile} :
       disk = [p \in ProjectPaths |-> IF p = "/proj" THEN artifact ELSE NoFile]
  /\ projectIndex = Null
  /\ searchEngine = Null
  /\ browserManager = ClosedBrowser
  /\ analysis = NoAnalysis
  /\ SearchIdle
  /\ ScoreIdle
  /\ IndexerIdle
  /\ StringIdle
  /\ CaptureIdle
  /\ ArbitrationIdle
  /\ SnippetIdle
  /\ ContextIdle

\* lines 93-118: the three screenshots, each named by its viewport
captureResponsiveScreenshots ==
  [desktop |-> "png 1200x800", tablet |-> "png 768x1024", mobile |-> "png 375x667"]

Correlator(index0, engine, manager) ==
  [projectIndex |-> index0, searchEngine |-> engine, browserManager |-> manager]

\* lines 42-49: a new VisualCodeCorrelator
NewCorrelator == Correlator(Null, Null, ClosedBrowser)

\* lines 51-91 on the correlator self, with the artifacts of files: the
\* correlator after the call and the outcome of the call.  projectPath is ""
\* when the argument is left out, dom is the page found at the url.
analyzeWithCodeCorrelation(self, files, projectPath, elementType, dom, failAt) ==
  LET loaded == loadIndex(files, projectPath)
      projectIndex1 == IF projectPath # "" THEN loaded ELSE self.projectIndex
      searchEngine1 == IF projectPath # "" /\ loaded # Null THEN loaded ELSE self.searchEngine
      started == initialize(self.browserManager, failAt)
      page == IF started.threw THEN started ELSE createPage(started.bm, failAt)
      entry == [projectPath |-> projectPath, elementType |-> elementType, dom |-> dom,
                indexBefore |-> self.projectIndex,
                load |-> IF projectPath = "" THEN "none"
                         ELSE IF loaded = Null THEN "failed" ELSE "loaded"]
  IN  IF page.threw
        THEN \* lines 67-68 are outside the try: nothing closes the browser
             [self |-> Correlator(projectIndex1, searchEngine1, page.bm),
              outcome |-> [status |-> "threw", call |-> entry]]
        ELSE \* lines 70-90: the finally block closes the browser
             [self |-> Correlator(projectIndex1, searchEngine1, close(page.bm)),
              outcome |->
                IF failAt = "goto"
                  THEN [status |-> "threw", call |-> entry]
                  ELSE TheOne({ [status |-> "returned", call |-> entry,
                                 correlations |-> correlations,
                                 screenshots |-> captureResponsiveScreenshots,
                                 summary |-> generateSummary(correlations)] :
                                correlations \in
                                  { correlateElementsWithComponents(
                                      searchEngine1, projectIndex1,
                                      extractTargetElements(dom, elementType)) } })]

\* a call of analyzeWithCodeCorrelation on the correlator
AnalyzeWithCodeCorrelation(projectPath, elementType, dom, failAt) ==
  /\ analysis = NoAnalysis
  /\ \E done \in { analyzeWithCodeCorrelation(
                       Correlator(projectIndex, searchEngine, browserManager), disk,
                       projectPath, elementType, dom, failAt) } :
       /\ projectIndex' = done.self.projectIndex
       /\ searchEngine' = done.self.searchEngine
       /\ browserManager' = done.self.browserManager
       /\ analysis' = done.outcome
  /\ UNCHANGED <<disk, searchVars, scoreVars, indexerVars, stringVars, captureVars, arbitrationVars,
                 snippetVars, contextVars>>

\* indexer-cli.ts lines 855-930: the correlate_visual_to_source tool, which
\* loads the index, answers that the project is not indexed when there is
\* none, and otherwise runs the analysis on a new correlator with the
\* focusElement it was given; what the analysis throws is caught and answered
\* as an error
HandleCorrelateVisualToSource(projectPath, focusElement, dom, failAt) ==
  /\ analysis = NoAnalysis
  /\ analysis' =
       IF loadIndex(disk, projectPath) = Null
         THEN [status |-> "handled", tool |-> "correlate_visual_to_source",
               focusElement |-> focusElement, answer |-> "Project Not Indexed"]
         ELSE TheOne({ [status |-> "handled", tool |-> "correlate_visual_to_source",
                        focusElement |-> focusElement,
                        answer |-> IF done.outcome.status = "threw" THEN "Error"
                                   ELSE "Correlation",
                        correlator |-> done.self,
                        result |-> done.outcome] :
                       done \in { analyzeWithCodeCorrelation(NewCorrelator, disk, projectPath,
                                                             focusElement, dom, failAt) } })
  /\ UNCHANGED <<disk, projectIndex, searchEngine, browserManager, searchVars, scoreVars,
                 indexerVars, stringVars, captureVars, arbitrationVars, snippetVars,
                 contextVars>>

\* the caller takes the outcome; the correlator is idle until the next call
ReturnAnalysis ==
  /\ analysis # NoAnalysis
  /\ analysis' = NoAnalysis
  /\ UNCHANGED <<disk, projectIndex, searchEngine, browserManager, searchVars, scoreVars,
                 indexerVars, stringVars, captureVars, arbitrationVars, snippetVars,
                 contextVars>>

\* the pages a call may find at the url: a page is loaded only when the browser
\* starts and the navigation succeeds
PagesLoaded(failAt) ==
  IF failAt = "none" THEN DistinctSeqs(DomPool, MaxElements) ELSE {<<>>}

NextCorrelator ==
  \/ \E projectPath \in ProjectPaths \cup {""}, elementType \in ElementTypes,
        failAt \in FailurePoints :
       \E dom \in PagesLoaded(failAt) :
         AnalyzeWithCodeCorrelation(projectPath, elementType, dom, failAt)
  \/ \E projectPath \in ProjectPaths, focusElement \in FocusElements,
        failAt \in FailurePoints :
       \E dom \in PagesLoaded(failAt) :
         HandleCorrelateVisualToSource(projectPath, focusElement, dom, failAt)
  \/ ReturnAnalysis

SpecCorrelator == InitCorrelator /\ [][NextCorrelator]_vars

-----------------------------------------------------------------------------
(* The indexer as a state machine: two ProjectIndexer instances on the     *)
(* same project, whose tree does not change, run indexProject one run      *)
(* after another                                                           *)
(***************************************************************************)

InitIndexer ==
  /\ projectTree \in TreeSet
  /\ manifest \in ManifestPool
  /\ indexers = [i \in Indexers |->
                   [index |-> NewIndex(ProjectPath, ConstructedAt),
                    browserManager |-> ClosedBrowser]]
  /\ history = <<>>
  /\ CorrelatorIdle
  /\ SearchIdle
  /\ ScoreIdle
  /\ StringIdle
  /\ CaptureIdle
  /\ ArbitrationIdle
  /\ SnippetIdle
  /\ ContextIdle

\* ui-context.ts lines 523-554; failAt names the call that fails in this run,
\* if any.  The entry added to history holds the index as the caller finds
\* it when the run returns.
IndexProject(i, failAt) ==
  /\ Len(history) < MaxRuns
  /\ \E structured \in {analyzeProjectStructure(indexers[i].index, manifest)} :
     \E discovered \in {discoverComponents(structured, projectTree)} :
     \E paged \in {discoverPages(discovered, projectTree)} :
     \E started \in {initialize(indexers[i].browserManager, failAt)} :
       LET threw == started.threw \/ failAt = "writeFile"
       IN  /\ indexers' = [indexers EXCEPT ![i] = [index |-> paged,
                                                   browserManager |-> close(started.bm)]]
           /\ disk' = IF threw THEN disk
                      ELSE [disk EXCEPT ![ProjectPath] = saveIndex(paged)]
           /\ history' = Append(history,
                                IF threw
                                  THEN [indexer |-> i, failAt |-> failAt, status |-> "threw"]
                                  ELSE [indexer |-> i, failAt |-> failAt,
                                        status |-> "returned", index |-> paged])
  /\ UNCHANGED <<projectTree, manifest, projectIndex, searchEngine, browserManager, analysis,
                 searchVars, scoreVars, stringVars, captureVars, arbitrationVars,
                 snippetVars, contextVars>>

NextIndexer ==
  \E i \in Indexers, failAt \in IndexFailurePoints : IndexProject(i, failAt)

SpecIndexer == InitIndexer /\ [][NextIndexer]_vars

-----------------------------------------------------------------------------
(* calculateStringSimilarity applied to two strings *)

MaxStringLen == 3       \* length of the strings over the alphabet

Alphabet == {"a", "b"}

RECURSIVE StringsOfLen(_)
StringsOfLen(n) ==
  IF n = 0 THEN {""} ELSE {s \o c : s \in StringsOfLen(n - 1), c \in Alphabet}

\* every string over the alphabet up to MaxStringLen, and two words
StringSet == UNION {StringsOfLen(n) : n \in 0..MaxStringLen} \cup {"kitten", "sitting"}

InitString ==
  /\ strA \in StringSet
  /\ strB \in StringSet
  /\ stringSimilarity = [computed |-> FALSE]
  /\ SearchIdle
  /\ ScoreIdle
  /\ CorrelatorIdle
  /\ IndexerIdle
  /\ CaptureIdle
  /\ ArbitrationIdle
  /\ SnippetIdle
  /\ ContextIdle

CalculateStringSimilarity ==
  /\ ~stringSimilarity.computed
  /\ stringSimilarity' = [computed |-> TRUE, value |-> calculateStringSimilarity(strA, strB)]
  /\ UNCHANGED <<strA, strB, searchVars, scoreVars, correlatorVars, indexerVars, captureVars,
                 arbitrationVars, snippetVars, contextVars>>

NextString == CalculateStringSimilarity

SpecString == InitString /\ [][NextString]_vars

(***************************************************************************)
(* Captures per breakpoint: VisualAnalyzer.analyzeComponent                *)
(* (visual-analyzer.ts) and UIContextTool.captureResponsiveViews           *)
(* (ui-context.ts).  The page is what the requested element is at each     *)
(* viewport width: visible, hidden (in the document, not displayed) or     *)
(* absent.                                                                 *)
(***************************************************************************)
Breakpoint(name, width, height) == [name |-> name, width |-> width, height |-> height]

\* visual-analyzer.ts lines 29-33: the default breakpoints
DefaultBreakpoints ==
  << Breakpoint("desktop", 1920, 1080), Breakpoint("tablet", 768, 1024),
     Breakpoint("mobile", 375, 667) >>

\* ui-context.ts line 306
ResponsiveBreakpoints == <<320, 768, 1024, 1440>>

\* visual-analyzer.ts lines 63-118: what is captured of a visible element
captureComponentData(selector, width) ==
  [componentBounds |-> [of |-> selector, viewport |-> width],
   screenshot |-> [of |-> selector, viewport |-> width],
   computedStyles |-> [of |-> selector, viewport |-> width],
   accessibility |-> [of |-> selector]]

\* visual-analyzer.ts lines 40-54: the loop over the breakpoints from the k-th
\* on, results being the captures so far in the order their keys were set;
\* waitForSelector waits for a visible element and throws after its timeout,
\* and nothing in the loop catches
RECURSIVE CaptureBreakpoints(_, _, _, _, _, _)
CaptureBreakpoints(page, selector, breakpoints, k, results, failAt) ==
  IF k > Len(breakpoints) THEN [threw |-> FALSE, results |-> results]
  ELSE IF failAt = "goto" THEN [threw |-> TRUE, error |-> "goto"]
  ELSE IF page[breakpoints[k].width] # "visible"
    THEN [threw |-> TRUE, error |-> "TimeoutError"]
  ELSE CaptureBreakpoints(page, selector, breakpoints, k + 1,
         SelectSeq(results, LAMBDA r : r.key # breakpoints[k].name)
           \o << [key |-> breakpoints[k].name,
                  value |-> captureComponentData(selector, breakpoints[k].width)] >>,
         failAt)

\* visual-analyzer.ts lines 26-61 on the analyzer's browser manager bm: the
\* manager after the call and the outcome
VisualAnalyzer_analyzeComponent(bm, page, selector, breakpoints, failAt) ==
  LET started == initialize(bm, failAt)
      opened == IF started.threw THEN started ELSE createPage(started.bm, failAt)
      looped == CaptureBreakpoints(page, selector, breakpoints, 1, <<>>, failAt)
  IN  IF opened.threw
        THEN [bm |-> opened.bm, outcome |-> [status |-> "threw", error |-> "browser"]]
        ELSE [bm |-> close(opened.bm),
              outcome |-> IF looped.threw
                            THEN [status |-> "threw", error |-> looped.error]
                            ELSE [status |-> "returned", results |-> looped.results]]

\* ui-context.ts lines 378-383
getDeviceName(width) ==
  IF width <= 480 THEN "Mobile"
  ELSE IF width <= 768 THEN "Tablet (Portrait)"
  ELSE IF width <= 1024 THEN "Tablet (Landscape)"
  ELSE "Desktop"

\* ui-context.ts lines 385-389
getDeviceType(width) ==
  IF width <= 480 THEN "mobile" ELSE IF width <= 1024 THEN "tablet" ELSE "desktop"

\* ui-context.ts lines 310-372: one turn of the loop, the views after it.
\* failWidth is the width at which taking the screenshot throws (0: nowhere);
\* the catch of the turn logs the error and the loop goes on.
CaptureResponsiveView(page, params, breakpoint, views, failWidth) ==
  LET cropped == params.selector # "undefined" /\ params.cropToElement
      view == [breakpoint |-> breakpoint,
               screenshot |-> IF cropped THEN [of |-> params.selector, viewport |-> breakpoint]
                              ELSE [of |-> "page", viewport |-> breakpoint],
               computedStyles |->
                 IF params.selector # "undefined" /\ page[breakpoint] # "absent"
                   THEN [of |-> params.selector, viewport |-> breakpoint]
                   ELSE [of |-> "nothing", viewport |-> breakpoint],
               viewport |-> [width |-> breakpoint, height |-> 720],
               deviceInfo |-> [name |-> getDeviceName(breakpoint),
                               type |-> getDeviceType(breakpoint)]]
  IN  IF cropped /\ page[breakpoint] # "visible" THEN views
      ELSE IF failWidth = breakpoint THEN views
      ELSE Append(views, view)

\* ui-context.ts lines 305-377
RECURSIVE captureResponsiveViewsFrom(_, _, _, _, _)
captureResponsiveViewsFrom(page, params, k, views, failWidth) ==
  IF k > Len(ResponsiveBreakpoints) THEN views
  ELSE captureResponsiveViewsFrom(page, params, k + 1,
         CaptureResponsiveView(page, params, ResponsiveBreakpoints[k], views, failWidth),
         failWidth)

captureResponsiveViews(page, params, failWidth) ==
  captureResponsiveViewsFrom(page, params, 1, <<>>, failWidth)

\* ---- inputs ----
Widths == {320, 375, 768, 1024, 1440, 1920}

ElementStates == {"visible", "hidden", "absent"}

ComponentSelector == ".hero"

BreakpointLists ==
  { DefaultBreakpoints,
    << Breakpoint("mobile", 375, 667), Breakpoint("wide", 1440, 900) >> }

CaptureParams ==
  { [selector |-> sel, cropToElement |-> crop] :
      sel \in {"undefined", ComponentSelector}, crop \in BOOLEAN }

ScreenshotFailures == {0, 768}

\* ---- the state machine ----
InitCapture ==
  /\ elementAt \in [Widths -> ElementStates]
  /\ visualAnalyzer = ClosedBrowser
  /\ capture = NoCapture
  /\ SearchIdle
  /\ ScoreIdle
  /\ CorrelatorIdle
  /\ IndexerIdle
  /\ StringIdle
  /\ ArbitrationIdle
  /\ SnippetIdle
  /\ ContextIdle

\* a call of VisualAnalyzer.analyzeComponent
AnalyzeComponent(breakpoints, failAt) ==
  /\ capture = NoCapture
  /\ \E done \in { VisualAnalyzer_analyzeComponent(visualAnalyzer, elementAt,
                                                   ComponentSelector, breakpoints, failAt) } :
       /\ visualAnalyzer' = done.bm
       /\ capture' = [op |-> "analyzeComponent", breakpoints |-> breakpoints,
                      status |-> done.outcome.status, outcome |-> done.outcome]
  /\ UNCHANGED <<elementAt, searchVars, scoreVars, correlatorVars, indexerVars, stringVars,
                 arbitrationVars, snippetVars, contextVars>>

\* a call of UIContextTool.captureResponsiveViews on the open page
CaptureResponsiveViews(params, failWidth) ==
  /\ capture = NoCapture
  /\ capture' = [op |-> "captureResponsiveViews", params |-> params, failWidth |-> failWidth,
                 status |-> "returned",
                 views |-> captureResponsiveViews(elementAt, params, failWidth)]
  /\ UNCHANGED <<elementAt, visualAnalyzer, searchVars, scoreVars, correlatorVars,
                 indexerVars, stringVars, arbitrationVars, snippetVars, contextVars>>

\* the caller takes the outcome
ReturnCapture ==
  /\ capture # NoCapture
  /\ capture' = NoCapture
  /\ UNCHANGED <<elementAt, visualAnalyzer, searchVars, scoreVars, correlatorVars,
                 indexerVars, stringVars, arbitrationVars, snippetVars, contextVars>>

NextCapture ==
  \/ \E breakpoints \in BreakpointLists, failAt \in FailurePoints :
       AnalyzeComponent(breakpoints, failAt)
  \/ \E params \in CaptureParams, failWidth \in ScreenshotFailures :
       CaptureResponsiveViews(params, failWidth)
  \/ ReturnCapture

SpecCapture == InitCapture /\ [][NextCapture]_vars

(***************************************************************************)
(* findComponentMatch strategy by strategy (visual-code-correlator.ts      *)
(* lines 253-319): the three strategies as steps, each given what its      *)
(* search returned.  A search returns nothing or a list whose first        *)
(* result carries a raw score of at least 1 (searchComponents keeps the    *)
(* results with a positive score).                                         *)
(***************************************************************************)
MaxRawScore == 18       \* the relevance score of the first result of a search

\* the results of a search by their first result
SearchResults(c) ==
  {<<>>} \cup { << [component |-> c, relevanceScore |-> s, matches |-> <<>>] >> :
                  s \in 1..MaxRawScore }

\* the results of the search of the type strategy: a query without text and
\* tags scores every component 0, so that nothing is returned for it
TypeSearchResults(visualElement) ==
  IF buildTypeQuery(visualElement) = TextQuery("") THEN {<<>>} ELSE SearchResults(Card)

\* the elements a component is sought for
ArbitrationTargets ==
  { VisualElement(el) :
      el \in {d \in DomPool : d.tagName \in {"button", "section", "div", "input"}} }

Step(strategy, entered, results, before, after) ==
  [strategy |-> strategy, entered |-> entered, results |-> results,
   before |-> before, after |-> after]

InitArbitration ==
  /\ visualTarget \in ArbitrationTargets
  /\ stage = "start"
  /\ matchSoFar = NoMatch
  /\ pending = <<>>
  /\ lastStep = NoStep
  /\ trail = <<>>
  /\ SearchIdle
  /\ ScoreIdle
  /\ CorrelatorIdle
  /\ IndexerIdle
  /\ StringIdle
  /\ CaptureIdle
  /\ SnippetIdle
  /\ ContextIdle

\* lines 258-269, the search having returned textResults
TextStep(textResults) ==
  /\ stage = "start"
  /\ \E after \in { IF TextStrategyEntered(visualTarget)
                      THEN TextOutcome(matchSoFar, textResults, visualTarget.text)
                      ELSE matchSoFar } :
       /\ matchSoFar' = after
       /\ lastStep' = Step("text", TextStrategyEntered(visualTarget),
                           IF TextStrategyEntered(visualTarget) THEN textResults ELSE <<>>,
                           matchSoFar, after)
       /\ trail' = Append(trail, after)
  /\ stage' = "text"
  /\ UNCHANGED <<visualTarget, pending, searchVars, scoreVars, correlatorVars, indexerVars,
                 stringVars, captureVars, snippetVars, contextVars>>

\* lines 272-283, the search having returned typeResults
TypeStep(typeResults) ==
  /\ stage = "text"
  /\ \E after \in { IF TypeStrategyEntered(matchSoFar)
                      THEN TypeOutcome(matchSoFar, typeResults, buildTypeQuery(visualTarget))
                      ELSE matchSoFar } :
       /\ matchSoFar' = after
       /\ lastStep' = Step("type", TypeStrategyEntered(matchSoFar),
                           IF TypeStrategyEntered(matchSoFar) THEN typeResults ELSE <<>>,
                           matchSoFar, after)
       /\ trail' = Append(trail, after)
  /\ stage' = "type"
  /\ UNCHANGED <<visualTarget, pending, searchVars, scoreVars, correlatorVars, indexerVars,
                 stringVars, captureVars, snippetVars, contextVars>>

\* lines 286-287: strategy 3 is entered with the class names to try, or skipped
EnterClassStrategy ==
  /\ stage = "type"
  /\ stage' = "class"
  /\ pending' = IF ClassStrategyEntered(matchSoFar, visualTarget)
                  THEN ClassNamesOf(visualTarget) ELSE <<>>
  /\ lastStep' = Step("class", ClassStrategyEntered(matchSoFar, visualTarget), <<>>,
                      matchSoFar, matchSoFar)
  /\ UNCHANGED <<visualTarget, matchSoFar, trail, searchVars, scoreVars, correlatorVars,
                 indexerVars, stringVars, captureVars, snippetVars, contextVars>>

\* lines 288-300 for the next class name, the search having returned classResults
ClassTokenStep(classResults) ==
  /\ stage = "class"
  /\ pending # <<>>
  /\ \E after \in { ClassTokenOutcome(matchSoFar, classResults, Head(pending)) } :
       /\ matchSoFar' = after
       /\ lastStep' = [strategy |-> "token", className |-> Head(pending), entered |-> TRUE,
                       results |-> classResults, before |-> matchSoFar, after |-> after]
       /\ trail' = Append(trail, after)
  /\ pending' = Tail(pending)
  /\ UNCHANGED <<visualTarget, stage, searchVars, scoreVars, correlatorVars, indexerVars,
                 stringVars, captureVars, snippetVars, contextVars>>

\* lines 304-318: the correlation is built from the match that stands
ReturnMatch ==
  /\ stage = "class"
  /\ pending = <<>>
  /\ stage' = "returned"
  /\ lastStep' = [strategy |-> "return", correlation |-> MatchCorrelation(visualTarget, matchSoFar)]
  /\ UNCHANGED <<visualTarget, matchSoFar, pending, trail, searchVars, scoreVars,
                 correlatorVars, indexerVars, stringVars, captureVars, snippetVars,
                 contextVars>>

NextArbitration ==
  \/ \E textResults \in SearchResults(SubmitButton) : TextStep(textResults)
  \/ \E typeResults \in TypeSearchResults(visualTarget) : TypeStep(typeResults)
  \/ EnterClassStrategy
  \/ \E classResults \in SearchResults(IconButton) \cup SearchResults(NavBar) :
       ClassTokenStep(classResults)
  \/ ReturnMatch

SpecArbitration == InitArbitration /\ [][NextArbitration]_vars

(***************************************************************************)
(* extractRelevantCodeSnippet (visual-code-correlator.ts lines 340-354)    *)
(* on components whose source has several lines.                           *)
(***************************************************************************)
MaxSourceLines == 22    \* lines of the source of the matched component

\* a source of n lines whose lines with an index in returns hold a return statement
SourceOf(n, returns) ==
  Join([k \in 1..n |-> IF (k - 1) \in returns THEN "return 0" ELSE "v" \o ToString(k - 1)],
       NewLine)

\* the sources: no return statement, one, or one and another on the last line
SourceSet ==
  { SourceOf(n, returns) :
      n \in 1..MaxSourceLines,
      returns \in {{}} \cup { {r} : r \in 0..(MaxSourceLines - 1) }
                       \cup { {r, MaxSourceLines - 1} : r \in 0..(MaxSourceLines - 1) } }

InitSnippet ==
  /\ snippetComponent \in
       { Component("src_Long", "Long", "Long component", source, <<>>, <<>>, <<>>, <<>>,
                   NoStyles) : source \in SourceSet }
  /\ snippetTaken = [taken |-> FALSE]
  /\ SearchIdle
  /\ ScoreIdle
  /\ CorrelatorIdle
  /\ IndexerIdle
  /\ StringIdle
  /\ CaptureIdle
  /\ ArbitrationIdle
  /\ ContextIdle

\* line 307: codeSnippet = this.extractRelevantCodeSnippet(bestMatch, visualElement)
ExtractRelevantCodeSnippet ==
  /\ ~snippetTaken.taken
  /\ snippetTaken' = [taken |-> TRUE, value |-> extractRelevantCodeSnippet(snippetComponent)]
  /\ UNCHANGED <<snippetComponent, searchVars, scoreVars, correlatorVars, indexerVars,
                 stringVars, captureVars, arbitrationVars, contextVars>>

NextSnippet == ExtractRelevantCodeSnippet

SpecSnippet == InitSnippet /\ [][NextSnippet]_vars

-----------------------------------------------------------------------------
(* UIContextTool.captureUIContext on the BrowserManager of the server *)

Viewport(width, height) == [width |-> width, height |-> height]

\* params.viewport left out
NoViewport == [undefined |-> TRUE]

\* part_001 lines 218-227: the viewport in the config of a BrowserManager
\* constructed without a config
DefaultConfigViewport == Viewport(1280, 720)

\* part_001 lines 336-341: the singleton, created on first use. bm is the
\* browser and the context, configViewport is config.viewport, and
\* contextViewport is the viewport the context was created with.
getBrowserManager(singleton) ==
  IF singleton = Null
    THEN [bm |-> ClosedBrowser, configViewport |-> DefaultConfigViewport,
          contextViewport |-> NoViewport]
    ELSE singleton

\* part_001 lines 246-251: a context that initialize creates takes the viewport
\* the config holds at that moment
AfterBrowserCall(manager, outcome) ==
  [manager EXCEPT !.bm = outcome.bm,
                  !.contextViewport = IF outcome.bm.context /\ ~manager.bm.context
                                        THEN manager.configViewport
                                        ELSE @]

\* part_001 lines 292-298: only the config changes; pages that exist keep
\* their viewport
updateViewport(manager, viewport) == [manager EXCEPT !.configViewport = viewport]

\* ui-context.ts lines 309-312 and 369-371: page.viewportSize() after the
\* breakpoints from the k-th on; a setViewportSize that throws (at failWidth)
\* is caught and leaves the viewport as it was
RECURSIVE ViewportAfterBreakpoints(_, _, _)
ViewportAfterBreakpoints(viewport, k, failWidth) ==
  IF k > Len(ResponsiveBreakpoints) THEN viewport
  ELSE ViewportAfterBreakpoints(
         IF ResponsiveBreakpoints[k] = failWidth THEN viewport
         ELSE Viewport(ResponsiveBreakpoints[k], 720),
         k + 1, failWidth)

\* ui-context.ts lines 305-376: the viewport of each view captured
ResponsiveViewports(failWidth) ==
  LET kept == SelectSeq(ResponsiveBreakpoints, LAMBDA breakpoint : breakpoint # failWidth)
  IN  [k \in 1..Len(kept) |-> [breakpoint |-> kept[k], viewport |-> Viewport(kept[k], 720)]]

\* ui-context.ts lines 392-406: page.viewportSize() || { width: 1280, height: 720 }
getPageContext(pageViewport) ==
  [viewport |-> IF pageViewport = NoViewport THEN Viewport(1280, 720) ELSE pageViewport]

\* ui-context.ts lines 15-84. The page is created with the viewport of the
\* context; screenshot.viewport is the viewport of the page when the main
\* screenshot is taken. The finally block closes the page, not the browser.
captureUIContext(singleton, params, failAt, failWidth) ==
  LET manager == getBrowserManager(singleton)
      started == initialize(manager.bm, failAt)
      afterInitialize == AfterBrowserCall(manager, started)
      opened == IF started.threw THEN started ELSE createPage(started.bm, failAt)
      afterCreatePage == AfterBrowserCall(afterInitialize, opened)
      pageViewport == afterCreatePage.contextViewport
      afterUpdate == IF params.viewport # NoViewport
                       THEN updateViewport(afterCreatePage, params.viewport)
                       ELSE afterCreatePage
      lastViewport == IF params.includeResponsive
                        THEN ViewportAfterBreakpoints(pageViewport, 1, failWidth)
                        ELSE pageViewport
  IN  IF opened.threw
        THEN [manager |-> afterCreatePage,
              outcome |-> [status |-> "threw", params |-> params]]
      ELSE IF failAt = "goto"
        THEN [manager |-> afterUpdate,
              outcome |-> [status |-> "threw", params |-> params]]
      ELSE [manager |-> afterUpdate,
            outcome |-> [status |-> "returned", params |-> params,
                         screenshot |-> [viewport |-> pageViewport],
                         responsive |-> IF params.includeResponsive
                                          THEN ResponsiveViewports(failWidth)
                                          ELSE <<>>,
                         context |-> getPageContext(lastViewport)]]

NoUIContext == [status |-> "none"]

\* the values of params.viewport
ViewportPool ==
  {NoViewport, Viewport(375, 667), Viewport(768, 1024), Viewport(1280, 720),
   Viewport(1440, 720), Viewport(1920, 1080)}

UIContextParams ==
  { [viewport |-> viewport, includeResponsive |-> includeResponsive] :
      viewport \in ViewportPool, includeResponsive \in BOOLEAN }

\* the breakpoint at which setViewportSize throws (0: nowhere); the loop runs
\* only when the page was loaded and includeResponsive is set
ResizeFailures(params, failAt) ==
  IF failAt = "none" /\ params.includeResponsive THEN {0, 320, 1024, 1440} ELSE {0}

InitContext ==
  /\ serverManager = Null
  /\ uiContext = NoUIContext
  /\ SearchIdle
  /\ ScoreIdle
  /\ CorrelatorIdle
  /\ IndexerIdle
  /\ StringIdle
  /\ CaptureIdle
  /\ ArbitrationIdle
  /\ SnippetIdle

\* a call of UIContextTool.captureUIContext
CaptureUIContext(params, failAt, failWidth) ==
  /\ uiContext = NoUIContext
  /\ \E done \in { captureUIContext(serverManager, params, failAt, failWidth) } :
       /\ serverManager' = done.manager
       /\ uiContext' = done.outcome
  /\ UNCHANGED <<searchVars, scoreVars, correlatorVars, indexerVars, stringVars, captureVars,
                 arbitrationVars, snippetVars>>

\* the caller takes the result
ReturnUIContext ==
  /\ uiContext # NoUIContext
  /\ uiContext' = NoUIContext
  /\ UNCHANGED <<serverManager, searchVars, scoreVars, correlatorVars, indexerVars,
                 stringVars, captureVars, arbitrationVars, snippetVars>>

\* part_001 lines 343-348: closeBrowserManager closes the singleton and drops it
CloseBrowserManager ==
  /\ uiContext = NoUIContext
  /\ serverManager # Null
  /\ serverManager' = Null
  /\ UNCHANGED <<uiContext, searchVars, scoreVars, correlatorVars, indexerVars, stringVars,
                 captureVars, arbitrationVars, snippetVars>>

NextContext ==
  \/ \E params \in UIContextParams, failAt \in FailurePoints :
       \E failWidth \in ResizeFailures(params, failAt) :
         CaptureUIContext(params, failAt, failWidth)
  \/ ReturnUIContext
  \/ CloseBrowserManager

SpecContext == InitContext /\ [][NextContext]_vars

-----------------------------------------------------------------------------
(* Properties of the search engine *)

\* where a component stands in index.components
PositionInIndex(c) == CHOOSE k \in 1..Len(index.components) : index.components[k] = c

\* C1: searchComponents returns its results sorted by relevanceScore, highest
\* first, and results of equal relevanceScore stand in the order of their
\* components in index.components.
C1_SortedDescendingStable ==
  call.op = "searchComponents" =>
    \A i, j \in 1..Len(ret) :
      i < j =>
        /\ ret[i].relevanceScore >= ret[j].relevanceScore
        /\ ret[i].relevanceScore = ret[j].relevanceScore =>
             PositionInIndex(ret[i].component) < PositionInIndex(ret[j].component)

\* a search whose sort moved a result forward and that also has a tie
C1_Witness ==
  /\ call.op = "searchComponents"
  /\ \E i, j \in 1..Len(ret) :
       i < j /\ ret[i].relevanceScore = ret[j].relevanceScore
  /\ \E i, j \in 1..Len(ret) :
       i < j /\ PositionInIndex(ret[i].component) > PositionInIndex(ret[j].component)

\* C2: the relevance score of a component for a query is never negative,
\* whatever the penalties of the query's filters.
C2_ScoreNonNegative ==
  pc = "scored" => score >= 0

\* all three penalties apply and outweigh a text match
C2_Witness ==
  /\ pc = "scored"
  /\ TextScore(component, query) > 0
  /\ TypeScore(component, query) = -5
  /\ HasPropsScore(component, query) = -3
  /\ HasSideEffectsScore(component, query) = -3
  /\ RawScore(component, query) < 0
  /\ score = 0

\* the query with one more tag
WithTag(q, t) == [q EXCEPT !.tags = Append(@, t)]

\* C3: adding to query.tags a tag the component has never lowers the
\* component's relevance score.
C3_TagMonotone ==
  pc = "scored" =>
    \A k \in 1..Len(component.tags) :
      calculateRelevanceScore(component, WithTag(query, component.tags[k])) >= score

\* a tag the query did not name raises the score; the query had other tags
C3_Witness ==
  /\ pc = "scored"
  /\ Len(query.tags) > 0
  /\ \E k \in 1..Len(component.tags) :
       /\ ~Contains(query.tags, component.tags[k])
       /\ calculateRelevanceScore(component, WithTag(query, component.tags[k])) = score + 4

InUnitInterval(r) == RatLeq(RatInt(0), r) /\ RatLeq(r, RatInt(1))

\* C5: every similarityScore returned by findSimilarComponents, in each of
\* the three modes, lies in [0, 1].
C5_SimilarityInUnitInterval ==
  call.op = "findSimilarComponents" =>
    \A i \in 1..Len(ret) : InUnitInterval(ret[i].similarityScore)

\* the SubmitButton scenario: the component and the query {text: "button"}
IsSubmitButtonScenario ==
  /\ pc = "scored"
  /\ component.name = "SubmitButton"
  /\ component.description = "SubmitButton component"
  /\ Includes(component.sourceCode, "onClick")
  /\ Contains(component.tags, "interactive")
  /\ query = TextQuery("button")

MatchFieldsOf(ms) == [i \in 1..Len(ms) |-> ms[i].field]

\* C7 as stated: in the SubmitButton scenario the relevance score is 10 and
\* there is exactly one match record, on the field name.
C7_ScenarioAsStated ==
  IsSubmitButtonScenario =>
    /\ score = 10
    /\ MatchFieldsOf(matches) = <<"name">>

\* C7 amended: in the SubmitButton scenario the name and the description both
\* contain "button", so the score is 15, plus 2 when the source text contains
\* "button" and 3 for every prop whose name or type contains it; the match
\* records are on name and description, then on sourceCode when it matches.
C7_ScenarioAmended ==
  IsSubmitButtonScenario =>
    LET inSource == Includes(ToLowerCase(component.sourceCode), "button")
        propHits == Cardinality({k \in 1..Len(component.props) :
                                   \/ Includes(ToLowerCase(component.props[k].name), "button")
                                   \/ Includes(ToLowerCase(component.props[k].type), "button")})
    IN  /\ score = 15 + (IF inSource THEN 2 ELSE 0) + 3 * propHits
        /\ MatchFieldsOf(matches) =
             <<"name", "description">> \o (IF inSource THEN <<"sourceCode">> ELSE <<>>)

\* the scenario with a source text that holds only the onClick usage
C7_Witness ==
  /\ IsSubmitButtonScenario
  /\ ~Includes(ToLowerCase(component.sourceCode), "button")
  /\ score = 15
  /\ Len(matches) = 2

-----------------------------------------------------------------------------
(* Properties of the correlator *)

\* the correlations of the analysis that has just returned
Correlations == IF analysis.status = "returned" THEN analysis.correlations ELSE <<>>

\* C4: every correlation has a confidence in [0, 0.9], and the confidence is
\* 0 exactly when sourceComponent is null.
C4_ConfidenceRange ==
  \A i \in 1..Len(Correlations) :
    LET c == Correlations[i]
    IN  /\ RatLeq(RatInt(0), c.confidence)
        /\ RatLeq(c.confidence, Rat(9, 10))
        /\ (c.confidence = RatInt(0)) <=> (c.sourceComponent = Null)

\* a match of the type strategy whose score / 15 is above the cap of 0.9
C4_Witness ==
  \E i \in 1..Len(Correlations) :
    /\ Correlations[i].sourceComponent # Null
    /\ Correlations[i].confidence = Rat(9, 10)
    /\ Correlations[i].matchReason = "Matched by element type and props: button"

IsUnmatched(c, reason) ==
  /\ c.sourceComponent = Null
  /\ c.confidence = RatInt(0)
  /\ c.matchReason = reason

-----------------------------------------------------------------------------
(* Properties of the indexer *)

\* the runs of history that returned an index
Returned == {k \in 1..Len(history) : history[k].status = "returned"}

\* the ids of the components of an index, in their order
IdsOf(idx) == [i \in 1..Len(idx.components) |-> idx.components[i].id]

\* run k is the first indexProject run of its indexer
IsFirstRun(k) == \A j \in 1..(k - 1) : history[j].indexer # history[k].indexer

\* C6: after an indexProject run that returned, loadIndex on the project path
\* gives an index equal to the one returned, field for field, the Date
\* values of metadata.lastIndexed and of every lastModified included.
C6_RoundTrip ==
  (history # <<>> /\ history[Len(history)].status = "returned")
    => loadIndex(disk, ProjectPath) = history[Len(history)].index

\* C8: on a project tree that does not change, any two indexProject runs that
\* return, on two indexers or on the same one, return indexes whose
\* components carry the same ids in the same order.
C8_ReindexDeterministic ==
  \A j, k \in Returned : IdsOf(history[j].index) = IdsOf(history[k].index)

\* C9: the components of the index a first indexProject run returns have
\* pairwise distinct ids.
C9_IdsUnique ==
  \A k \in Returned :
    IsFirstRun(k) =>
      \A a, b \in 1..Len(history[k].index.components) :
        a # b => history[k].index.components[a].id # history[k].index.components[b].id

-----------------------------------------------------------------------------
(* Properties of the strategies of findComponentMatch *)

\* C11: for an element whose text is longer than 2 characters and whose text
\* search has a top result of score s, the text strategy sets the match to
\* that result's component with confidence min(s/20, 0.8); when s >= 12 the
\* correlation returned keeps that component and that confidence, and a top
\* score of 16 gives the confidence 0.8.
C11_TextStrategy ==
  (analysis.status = "returned" /\ searchEngine # Null /\ projectIndex # Null) =>
    \A i \in 1..Len(analysis.correlations) :
      LET c == analysis.correlations[i]
          text == c.visualElement.text
          textResults == searchComponents(searchEngine, TextQuery(text))
      IN  (Len(text) > 2 /\ Len(textResults) > 0) =>
            LET s == textResults[1].relevanceScore
                expected == RatMin(Rat(s, 20), Rat(8, 10))
                afterText == TextStrategy(searchEngine, c.visualElement, NoMatch)
            IN  /\ afterText.bestMatch = textResults[1].component
                /\ afterText.confidence = expected
                /\ s >= 12 => /\ c.sourceComponent = textResults[1].component
                              /\ c.confidence = expected
                /\ s = 16 => c.confidence = Rat(8, 10)

\* a correlation made by the text strategy from a top score of 16
C11_Witness ==
  /\ analysis.status = "returned"
  /\ searchEngine # Null
  /\ \E i \in 1..Len(analysis.correlations) :
       LET c == analysis.correlations[i]
       IN  /\ c.visualElement.text = "Toggle"
           /\ c.sourceComponent = ToggleSwitch
           /\ c.confidence = Rat(8, 10)
           /\ c.matchReason = "Matched by text content: \"Toggle\""
           /\ searchComponents(searchEngine, TextQuery("Toggle"))[1].relevanceScore = 16

-----------------------------------------------------------------------------
(* Properties of calculateStringSimilarity *)

\* the least number of an non-empty set of numbers
Least(S) == CHOOSE m \in S : \A x \in S : m <= x

\* the Levenshtein distance by its recurrence on the prefixes of a and b
EditDistance(a, b) ==
  LET D[i \in 0..Len(a), j \in 0..Len(b)] ==
        IF i = 0 THEN j
        ELSE IF j = 0 THEN i
        ELSE Least({ D[i - 1, j] + 1, D[i, j - 1] + 1,
                     D[i - 1, j - 1] + (IF CharAt(a, i) = CharAt(b, j) THEN 0 ELSE 1) })
  IN  D[Len(a), Len(b)]

\* C12: calculateStringSimilarity(a, b) is (maxLen - editDistance(a, b)) / maxLen
\* with maxLen the longer length, and 1 for two empty strings; it is 1 for
\* two equal strings and 4/7 for "kitten" and "sitting".
C12_StringSimilarity ==
  stringSimilarity.computed =>
    LET maxLen == Max(Len(strA), Len(strB))
    IN  /\ maxLen = 0 => stringSimilarity.value = RatInt(1)
        /\ maxLen > 0 =>
              stringSimilarity.value = Rat(maxLen - EditDistance(strA, strB), maxLen)
        /\ strA = strB => stringSimilarity.value = RatInt(1)
        /\ (strA = "kitten" /\ strB = "sitting") => stringSimilarity.value = Rat(4, 7)

\* the similarity of "kitten" and "sitting" has been computed
C12_Witness ==
  /\ stringSimilarity.computed
  /\ strA = "kitten"
  /\ strB = "sitting"
  /\ stringSimilarity.value = Rat(4, 7)

-----------------------------------------------------------------------------
(* Properties of the responsive issues *)

TouchTargetIssue(width, height) ==
  "Touch target too small: " \o ToString(width) \o "x" \o ToString(height)
    \o "px (minimum 44x44px)"

\* C13: the responsiveIssues of every correlation, with or without a source
\* component, hold the touch-target message with the element's own width and
\* height exactly when the width or the height is below 44; an element of
\* 30x30 with a font size of at least 14px and distinct colours has that
\* message as its only issue.
C13_TouchTarget ==
  analysis.status = "returned" =>
    \A i \in 1..Len(analysis.correlations) :
      LET c == analysis.correlations[i]
          el == c.visualElement
          width == el.bounds.width
          height == el.bounds.height
      IN  /\ Contains(c.responsiveIssues, TouchTargetIssue(width, height))
                <=> (width < 44 \/ height < 44)
          /\ (/\ width = 30
               /\ height = 30
               /\ el.styles.fontSize = "16px"
               /\ el.styles.color # el.styles.backgroundColor)
                => c.responsiveIssues = <<TouchTargetIssue(30, 30)>>

\* a 30x30 element whose only issue is the touch target, matched or not
C13_Witness ==
  /\ analysis.status = "returned"
  /\ \E i \in 1..Len(analysis.correlations) :
       /\ analysis.correlations[i].visualElement.bounds = [width |-> 30, height |-> 30]
       /\ analysis.correlations[i].responsiveIssues
            = <<"Touch target too small: 30x30px (minimum 44x44px)">>

-----------------------------------------------------------------------------
(* Properties of findSimilarComponents *)

\* the positions of the index whose component has the id asked for
TargetPositions == {k \in 1..Len(index.components) : index.components[k].id = call.componentId}

\* the score of the component at position k against the target
ScoreAgainstTarget(k) ==
  calculateSimilarityScore(index.components[FirstOf(TargetPositions)], index.components[k],
                           call.similarityType)

\* the positions of the components that may be returned
Candidates ==
  {k \in 1..Len(index.components) :
     /\ index.components[k].id # call.componentId
     /\ RatLess(Rat(1, 10), ScoreAgainstTarget(k))}

\* C14: findSimilarComponents returns the empty list for an id that is not
\* in the index; otherwise the list returned does not hold the target, every
\* similarityScore is above 0.1, the scores are descending, the list has at
\* most limit entries, and it holds the highest-scoring candidates.
C14_FindSimilar ==
  call.op = "findSimilarComponents" =>
    IF TargetPositions = {} THEN ret = <<>>
    ELSE /\ \A i \in 1..Len(ret) :
              /\ ret[i].component.id # call.componentId
              /\ RatLess(Rat(1, 10), ret[i].similarityScore)
              /\ \E k \in Candidates :
                   /\ ret[i].component = index.components[k]
                   /\ ret[i].similarityScore = ScoreAgainstTarget(k)
         /\ \A i, j \in 1..Len(ret) :
              i < j => RatLeq(ret[j].similarityScore, ret[i].similarityScore)
         /\ Len(ret) <= call.limit
         /\ Len(ret) = Min(call.limit, Cardinality(Candidates))
         /\ \A k \in Candidates :
              (\A i \in 1..Len(ret) : ret[i].component # index.components[k])
                => \A i \in 1..Len(ret) :
                     RatLeq(ScoreAgainstTarget(k), ret[i].similarityScore)

\* a call whose limit leaves out a candidate of a lower score than one returned
C14_Witness ==
  /\ call.op = "findSimilarComponents"
  /\ TargetPositions # {}
  /\ Len(ret) = call.limit
  /\ Len(ret) > 0
  /\ \E k \in Candidates :
       /\ \A i \in 1..Len(ret) : ret[i].component # index.components[k]
       /\ RatLess(ScoreAgainstTarget(k), ret[Len(ret)].similarityScore)

-----------------------------------------------------------------------------
(* Properties of the runs of the indexer *)

\* the records a run extracts from the files of the tree
ComponentsOfTree ==
  AnalyzeComponents(ProjectPath, projectTree,
                    findComponentFiles(projectTree, PathJoin(ProjectPath, "src")))
PagesOfTree ==
  AnalyzePages(ProjectPath, projectTree,
               findComponentFiles(projectTree, PathJoin(PathJoin(ProjectPath, "src"), "pages")))

\* C15: after an indexProject run that returned, the components and pages of
\* the index returned and of the artifact on disk are exactly the records
\* extracted in that run from the files of the tree, none carried over from
\* an earlier run.
C15_RunReplaces ==
  (history # <<>> /\ history[Len(history)].status = "returned") =>
    LET returned == history[Len(history)].index
        ofRun == [returned EXCEPT !.components = ComponentsOfTree, !.pages = PagesOfTree]
    IN  /\ returned.components = ComponentsOfTree
        /\ returned.pages = PagesOfTree
        /\ disk[ProjectPath].kind = "json"
        /\ disk[ProjectPath].value.components = ThroughJson(ofRun).components
        /\ disk[ProjectPath].value.pages = PagesOfTree

Frameworks == {"react", "vue", "angular", "unknown"}

IndexInvariant(idx) ==
  /\ idx.metadata.componentsCount = Len(idx.components)
  /\ idx.metadata.pagesCount = Len(idx.pages)
  /\ idx.metadata.framework \in Frameworks

\* C16: every index an indexProject run returned and the artifact on disk
\* have componentsCount equal to the number of components, pagesCount equal
\* to the number of pages, and a framework among react, vue, angular and
\* unknown.
C16_IndexInvariant ==
  /\ \A k \in Returned : IndexInvariant(history[k].index)
  /\ disk[ProjectPath].kind = "json" => IndexInvariant(disk[ProjectPath].value)

\* a second run of an indexer has returned, on a tree with a file that
\* cannot be read and one that can
C16_Witness ==
  /\ Len(history) = 2
  /\ history[1].indexer = history[2].indexer
  /\ history[2].status = "returned"
  /\ \E i \in 1..Len(projectTree) : ~projectTree[i].readable
  /\ history[2].index.metadata.componentsCount = 2
  /\ disk[ProjectPath].kind = "json"

-----------------------------------------------------------------------------
(* Properties of the index held by the engine *)

\* C17: no call on the engine changes the usedIn, tags, props or imports of
\* a component of the index, or the order of the components.
C17_IndexReadOnly ==
  [][ /\ Len(index'.components) = Len(index.components)
      /\ \A k \in 1..Len(index.components) :
           /\ index'.components[k].id = index.components[k].id
           /\ index'.components[k].usedIn = index.components[k].usedIn
           /\ index'.components[k].tags = index.components[k].tags
           /\ index'.components[k].props = index.components[k].props
           /\ index'.components[k].imports = index.components[k].imports ]_vars


\* the elements an analysis was asked to focus on and the ones it extracted
FocusOfAnalysis ==
  IF analysis.status = "handled" THEN analysis.focusElement ELSE analysis.call.elementType

OutcomeOfAnalysis == IF analysis.status = "handled" THEN analysis.result ELSE analysis

HasExtracted ==
  /\ analysis # NoAnalysis
  /\ \/ analysis.status = "returned"
     \/ analysis.status = "handled" /\ analysis.answer = "Correlation"

\* the selectors a focus stands for: those of its element type, for navigation
\* the landmark and link selectors, for all (or no focus) every selector
FocusAllowList(focus) ==
  CASE focus \in {"button", "buttons"} -> ButtonSelectors
    [] focus \in {"input", "forms"} -> InputSelectors
    [] focus \in {"card", "cards"} -> CardSelectors
    [] focus = "navigation" ->
         << Selector("tag", "nav"), Selector("tag", "header"), Selector("tag", "main"),
            Selector("tag", "section"), Selector("tag", "article"),
            Selector("has", "onclick"), Selector("aHref", "") >>
    [] OTHER -> getSelectorsForType("all")

PresentBreakpoints ==
  SelectSeq(capture.breakpoints, LAMBDA b : elementAt[b.width] = "visible")

\* C19: when the requested element is absent or not visible at some breakpoint,
\* only the capture of that breakpoint is dropped: analyzeComponent returns the
\* captures of every breakpoint at which the element is visible, and
\* captureResponsiveViews cropped to the element returns a view for every
\* breakpoint at which the element is visible and the screenshot did not fail.
C19_PerStepFailure ==
  /\ (/\ capture # NoCapture
      /\ capture.op = "analyzeComponent"
      /\ capture.outcome.status = "threw" => capture.outcome.error = "TimeoutError") =>
       /\ capture.status = "returned"
       /\ \A k \in 1..Len(PresentBreakpoints) :
            \E r \in 1..Len(capture.outcome.results) :
              /\ capture.outcome.results[r].key = PresentBreakpoints[k].name
              /\ capture.outcome.results[r].value
                   = captureComponentData(ComponentSelector, PresentBreakpoints[k].width)
  /\ (/\ capture # NoCapture
      /\ capture.op = "captureResponsiveViews"
      /\ capture.params.selector # "undefined"
      /\ capture.params.cropToElement) =>
       \A k \in 1..Len(ResponsiveBreakpoints) :
         (/\ elementAt[ResponsiveBreakpoints[k]] = "visible"
          /\ ResponsiveBreakpoints[k] # capture.failWidth) =>
           \E v \in 1..Len(capture.views) :
             capture.views[v].breakpoint = ResponsiveBreakpoints[k]


\* the files of the tree under root that the traversal can reach and read: no
\* directory on the way is hidden, is node_modules or cannot be read, the name
\* is that of a component file and the file can be read
ReadableUnder(root) ==
  { i \in 1..Len(projectTree) :
      LET f == projectTree[i]
          segments == Split(SubSeq(f.path, Len(root) + 2, Len(f.path)), "/")
      IN  /\ ~f.isDirectory
          /\ f.readable
          /\ StartsWith(f.path, root \o "/")
          /\ isComponentFile(PathBasename(f.path))
          /\ \A d \in 1..(Len(segments) - 1) :
               ~StartsWith(segments[d], ".") /\ segments[d] # "node_modules"
          /\ \A j \in 1..Len(projectTree) :
               (projectTree[j].isDirectory /\ ~projectTree[j].readable)
                 => ~StartsWith(f.path, projectTree[j].path \o "/") }

\* the position of a file in the traversal from root
TraversalPosition(root, filePath) ==
  LET walk == findComponentFiles(projectTree, root)
  IN  CHOOSE n \in 1..Len(walk) : walk[n] = PathJoin(ProjectPath, filePath)

\* records holds exactly one record per file of ReadableUnder(root), in traversal order
HoldsExactly(records, root) ==
  /\ Len(records) = Cardinality(ReadableUnder(root))
  /\ \A i \in ReadableUnder(root) :
       \E r \in 1..Len(records) :
         records[r].filePath = PathRelative(ProjectPath, projectTree[i].path)
  /\ \A r1, r2 \in 1..Len(records) :
       r1 < r2 => TraversalPosition(root, records[r1].filePath)
                    < TraversalPosition(root, records[r2].filePath)

\* C20: an indexProject run in which the browser starts and the artifact can
\* be written returns, whichever files and directories of the tree cannot be
\* read and whatever the manifest is; the index it returns holds exactly the
\* component records of the readable files under src and the page records of
\* the readable files under src/pages, in traversal order, and its framework
\* is unknown when the manifest is missing or is not JSON.
C20_PartialResults ==
  \A k \in 1..Len(history) :
    history[k].failAt = "none" =>
      /\ history[k].status = "returned"
      /\ Len(history[k].index.components) = Cardinality(ReadableUnder("/proj/src"))
      /\ Len(history[k].index.pages) = Cardinality(ReadableUnder("/proj/src/pages"))
      /\ HoldsExactly(history[k].index.components, "/proj/src")
      /\ HoldsExactly(history[k].index.pages, "/proj/src/pages")
      /\ manifest.kind # "json" => history[k].index.metadata.framework = "unknown"


\* the raw score of the first result of the search of the last step, 0 when
\* the search returned nothing
TopScore == IF lastStep.results = <<>> THEN 0 ELSE lastStep.results[1].relevanceScore

\* the text of the query the type strategy builds for an element
TypeQueryText(visualElement) ==
  IF visualElement.tagName = "button" \/ visualElement.attributes.role = "button" THEN "button"
  ELSE IF visualElement.tagName \in {"input", "textarea", "select"} THEN "input"
  ELSE IF Includes(visualElement.className, "card") THEN "card"
  ELSE IF visualElement.tagName = "nav" THEN "navigation"
  ELSE "undefined"

\* C21: the type strategy is evaluated exactly when, after the text strategy,
\* there is no match or the confidence is below 0.5; evaluated, it replaces
\* the match exactly when the raw score t of its first result is above 5 and
\* (there is no match or t > confidence x 20), with confidence min(t/15, 0.9)
\* and the reason "Matched by element type and props: <query text>";
\* otherwise the match, its confidence and reason stay as they are.  A text
\* match of raw score s < 10 is thus replaced exactly when t > 5 and t > s.
C21_TypeArbitration ==
  lastStep.strategy = "type" =>
    LET before == lastStep.before
        t == TopScore
        replaces == /\ lastStep.entered
                    /\ t > 5
                    /\ \/ before.bestMatch = Null
                       \/ RatLess(RatMul(before.confidence, RatInt(20)), RatInt(t))
    IN  /\ lastStep.entered
          <=> (before.bestMatch = Null \/ RatLess(before.confidence, Rat(1, 2)))
        /\ replaces =>
             /\ lastStep.after.bestMatch = lastStep.results[1].component
             /\ lastStep.after.confidence = RatMin(Rat(t, 15), Rat(9, 10))
             /\ lastStep.after.matchReason
                  = "Matched by element type and props: " \o TypeQueryText(visualTarget)
        /\ ~replaces => lastStep.after = before
        /\ \A s \in 1..9 :
             (before.bestMatch # Null /\ before.confidence = Rat(s, 20)) =>
               ((lastStep.after # before) <=> (t > 5 /\ t > s))

\* a text match of raw score 8 is replaced by a type result of raw score 9
C21_Witness ==
  /\ lastStep.strategy = "type"
  /\ lastStep.before.bestMatch = SubmitButton
  /\ lastStep.before.confidence = Rat(8, 20)
  /\ TopScore = 9
  /\ lastStep.after.bestMatch = Card
  /\ lastStep.after.confidence = Rat(9, 15)


\* the class tokens of an element that are longer than 2 characters, left to right
LongClassTokens(visualElement) ==
  LET tokens == Split(visualElement.className, " ")
      long == {i \in 1..Len(tokens) : Len(tokens[i]) > 2}
  IN  [k \in 1..Cardinality(long) |->
         tokens[CHOOSE i \in long : Cardinality({j \in long : j < i}) = k - 1]]

\* whether strategy 3 is to be entered with match m standing
ClassEntry(m) ==
  /\ m.bestMatch = Null \/ RatLess(m.confidence, Rat(6, 10))
  /\ visualTarget.className # ""

\* C22: the class strategy is entered exactly when (there is no match or the
\* confidence is below 0.6) and the class attribute is not empty; it then
\* tries every class token longer than 2 characters, left to right, and a
\* token replaces the match exactly when the raw score c of its first result
\* is above 3 and (there is no match or c > confidence x 15), the confidence
\* being the one that stands at that token, with confidence min(c/12, 0.7);
\* a token that does not replace leaves the match as it is.
C22_ClassArbitration ==
  /\ lastStep.strategy = "class" =>
       /\ lastStep.entered <=> ClassEntry(lastStep.before)
       /\ pending = IF ClassEntry(lastStep.before) THEN LongClassTokens(visualTarget) ELSE <<>>
  /\ lastStep.strategy = "token" =>
       LET before == lastStep.before
           c == TopScore
           replaces == /\ c > 3
                       /\ \/ before.bestMatch = Null
                          \/ RatLess(RatMul(before.confidence, RatInt(15)), RatInt(c))
       IN  /\ before = trail[Len(trail) - 1]
           /\ lastStep.className = LongClassTokens(visualTarget)[Len(trail) - 2]
           /\ replaces =>
                /\ lastStep.after.bestMatch = lastStep.results[1].component
                /\ lastStep.after.confidence = RatMin(Rat(c, 12), Rat(7, 10))
           /\ ~replaces => lastStep.after = before
  /\ stage = "returned" =>
       Len(trail) = 2 + (IF ClassEntry(trail[2]) THEN Len(LongClassTokens(visualTarget)) ELSE 0)

\* the second class token overrides the match the first class token set
C22_Witness ==
  /\ lastStep.strategy = "token"
  /\ Len(trail) = 4
  /\ trail[2].bestMatch = Null
  /\ trail[3].bestMatch = IconButton
  /\ trail[3].confidence = Rat(4, 12)
  /\ TopScore = 6
  /\ trail[4].bestMatch = NavBar
  /\ trail[4].confidence = Rat(6, 12)


\* C26: no step of the arbitration lowers the confidence: a replacement by
\* the type strategy or by a class token sets a confidence that is at least
\* the one held before, so the confidence after each step is at least the
\* confidence after every earlier step, and the confidence returned is at
\* least the one after the text strategy and after the type strategy.
C26_ConfidenceMonotone ==
  /\ lastStep.strategy \in {"type", "token"} =>
       RatLeq(lastStep.before.confidence, lastStep.after.confidence)
  /\ \A i, j \in 1..Len(trail) :
       i <= j => RatLeq(trail[i].confidence, trail[j].confidence)
  /\ stage = "returned" =>
       /\ RatLeq(trail[1].confidence, lastStep.correlation.confidence)
       /\ RatLeq(trail[2].confidence, lastStep.correlation.confidence)

\* a class token of raw score 9 replaces a type match of confidence 8/15 and
\* raises the confidence to 0.7
C26_Witness ==
  /\ lastStep.strategy = "token"
  /\ lastStep.before.bestMatch = Card
  /\ lastStep.before.confidence = Rat(8, 15)
  /\ TopScore = 9
  /\ lastStep.after.bestMatch # Card
  /\ lastStep.after.confidence = Rat(7, 10)


\* the lines of the source of the matched component
SnippetSourceLines == Split(snippetComponent.sourceCode, NewLine)

\* the indexes, from 0, of the lines that hold a return statement
ReturnLines ==
  {r \in 0..(Len(SnippetSourceLines) - 1) : Includes(SnippetSourceLines[r + 1], "return")}

\* the lines with the indexes from..to, joined as the snippet is
LinesJoined(from, to) == Join(SubSeq(SnippetSourceLines, from + 1, to + 1), NewLine)

\* C23: for a source with lines 0..n-1 whose first line holding a return
\* statement has index r, the snippet is the lines max(0, r-2) up to and
\* including min(n-1, r+15); with no return statement it is the first
\* min(n, 20) lines.
C23_SnippetWindow ==
  snippetTaken.taken =>
    LET n == Len(SnippetSourceLines)
    IN  IF ReturnLines # {}
          THEN LET r == CHOOSE x \in ReturnLines : \A y \in ReturnLines : x <= y
               IN  snippetTaken.value = LinesJoined(Max(0, r - 2), Min(n - 1, r + 15))
          ELSE snippetTaken.value = LinesJoined(0, Min(n, 20) - 1)


\* the pages of idx, in their order, whose component-usage list holds a name
\* that resolves to the component at position i (the first of that name) and
\* whose id is not among the usedIn contexts of that component
PagesToAdd(idx, i) ==
  LET c == idx.components[i]
      resolves == \A j \in 1..(i - 1) : idx.components[j].name # c.name
      using == SelectSeq(idx.pages, LAMBDA p :
                 resolves /\ Contains(p.components, c.name) /\ ~Contains(c.usedIn, p.id))
  IN  [k \in 1..Len(using) |-> using[k].id]

\* the usage graph of idx: usedIn followed by the ids of the pages to add
UsageGraphOf(idx) ==
  [id \in {idx.components[i].id : i \in 1..Len(idx.components)} |->
     LET i == CHOOSE n \in 1..Len(idx.components) : idx.components[n].id = id
     IN  idx.components[i].usedIn \o PagesToAdd(idx, i)]

\* C24: getComponentUsageGraph maps each component id to the usedIn contexts
\* of the component followed by the id of every page whose component-usage
\* list names it, a page id being added only once and only when it is not
\* there already; the engine is left such that the next call returns the
\* same mapping.
C24_UsageGraph ==
  [][(call = NoCall /\ call'.op = "getComponentUsageGraph") =>
       /\ ret' = UsageGraphOf(index)
       /\ getComponentUsageGraph(index') = ret'
       /\ UsageGraphOf(index') = ret']_vars

\* the graph returned gives NavBar, used nowhere by itself, the page About that
\* names it, and gives Card the page Home once
C24_Witness ==
  /\ call.op = "getComponentUsageGraph"
  /\ "src_NavBar" \in DOMAIN ret
  /\ "src_Card" \in DOMAIN ret
  /\ ret["src_NavBar"] = <<"src_pages_About">>
  /\ ret["src_Card"] = <<"src_pages_Home", "src_pages_About">>


\* the values of a sequence
ValuesOf(seq) == {seq[i] : i \in 1..Len(seq)}

\* the number of distinct values two sequences have in common
CommonValues(seq1, seq2) == Cardinality(ValuesOf(seq1) \cap ValuesOf(seq2))

PropTypesOf(c) == [i \in 1..Len(c.props) |-> c.props[i].type]

\* min(1, 0.2 x common tags + 0.15 x common prop types + 0.1 x common
\* imports + 0.3 x string similarity of the names), common values counted once
SemanticOfSets(a, b) ==
  RatMin(RatInt(1),
         RatAdd(Rat(20 * CommonValues(a.tags, b.tags)
                      + 15 * CommonValues(PropTypesOf(a), PropTypesOf(b))
                      + 10 * CommonValues(a.imports, b.imports), 100),
                RatMul(Rat(Max(Len(a.name), Len(b.name)) - EditDistance(a.name, b.name),
                           Max(1, Max(Len(a.name), Len(b.name)))),
                       Rat(3, 10))))

\* C25: the semantic similarity findSimilarComponents reports for a component
\* against the target is min(1, 0.2 x |common tags| + 0.15 x |common prop
\* types| + 0.1 x |common imports| + 0.3 x stringSimilarity of the names),
\* each a number of distinct common values, and is the same in both
\* directions.
C25_SemanticSimilarity ==
  (call.op = "findSimilarComponents" /\ call.similarityType = "semantic") =>
    \A i \in 1..Len(ret) :
      \A t \in TargetPositions :
        /\ ret[i].similarityScore = SemanticOfSets(index.components[t], ret[i].component)
        /\ ret[i].similarityScore
             = calculateSemanticSimilarity(ret[i].component, index.components[t])


\* C27: in any sequence of analyzeWithCodeCorrelation calls on one correlator,
\* the correlations of a call are made against the index loaded from that
\* call's projectPath, and a call without projectPath or whose projectPath has
\* no loadable index returns only correlations with sourceComponent null and
\* the reason "No project index available", whatever earlier calls loaded.
C27_NoIndexLeak ==
  analysis.status = "returned" =>
    /\ analysis.call.load = "loaded" =>
         \E own \in {loadIndex(disk, analysis.call.projectPath)} :
           analysis.correlations
             = correlateElementsWithComponents(
                 own, own, extractTargetElements(analysis.call.dom, analysis.call.elementType))
    /\ analysis.call.load # "loaded" =>
         \A i \in 1..Len(analysis.correlations) :
           IsUnmatched(analysis.correlations[i], "No project index available")


\* C28: whenever analyzeWithCodeCorrelation has returned or thrown, also when
\* createPage failed after a successful initialize or the navigation failed,
\* the BrowserManager of the correlator is closed: browser and context are
\* null and isInitialized() is false.
C28_BrowserReleased ==
  analysis.status \in {"returned", "threw"} =>
    /\ browserManager = ClosedBrowser
    /\ ~isInitialized(browserManager)


\* the element is not button-like, not input-like, has no class containing
\* "card" and is not a nav
NoRecognisedType(visualElement) ==
  /\ visualElement.tagName \notin {"button", "input", "textarea", "select", "nav"}
  /\ visualElement.attributes.role # "button"
  /\ ~Includes(visualElement.className, "card")

\* C29: for an element of no recognised type the type query is the empty
\* query, the search with it returns nothing on the index the correlator
\* holds, the type strategy leaves the match of the text strategy as it is,
\* and the reason "Matched by element type and props: undefined" is not
\* produced.
C29_NoTypeNoMatch ==
  (analysis.status = "returned" /\ searchEngine # Null) =>
    \A i \in 1..Len(analysis.correlations) :
      \A visualElement \in {analysis.correlations[i].visualElement} :
        NoRecognisedType(visualElement) =>
          /\ buildTypeQuery(visualElement) = TextQuery("")
          /\ searchComponents(searchEngine, buildTypeQuery(visualElement)) = <<>>
          /\ \A byText \in {TextStrategy(searchEngine, visualElement, NoMatch)} :
               TypeStrategy(searchEngine, visualElement, byText) = byText
          /\ analysis.correlations[i].matchReason
               # "Matched by element type and props: undefined"

\* an analysis against a loaded index with components met an element of no
\* recognised type, and the element kept the match its text gave it
C29_Witness ==
  /\ analysis.status = "returned"
  /\ analysis.call.load = "loaded"
  /\ searchEngine # Null
  /\ Len(searchEngine.components) > 0
  /\ \E i \in 1..Len(analysis.correlations) :
       /\ NoRecognisedType(analysis.correlations[i].visualElement)
       /\ analysis.correlations[i].sourceComponent # Null
       /\ RatLess(analysis.correlations[i].confidence, Rat(5, 10))


\* C30: when params.viewport is given, the main screenshot of captureUIContext
\* is taken with the viewport of the page equal to params.viewport, and the
\* context.viewport of the result is the viewport the page had when the main
\* screenshot was taken, also when the responsive views are captured
\* afterwards on the same page.
C30_ViewportConsistency ==
  (uiContext.status = "returned" /\ uiContext.params.viewport # NoViewport) =>
    /\ uiContext.screenshot.viewport = uiContext.params.viewport
    /\ uiContext.context.viewport = uiContext.screenshot.viewport

====
